---- MODULE Spec2Model ----
(***************************************************************************)
(* Model of the kori backend.                                              *)
(*                                                                         *)
(* Authentication: the User document (models/User.js), the AuthService     *)
(* operations built on it (services/AuthService.js), the JWT helper        *)
(* (utils/jwt.js) and the request validators / error handler in front of   *)
(* them.                                                                   *)
(*                                                                         *)
(* Chats: the Chat document with its embedded prompts (models/Chat.js),    *)
(* the Message collection of per-(chat, prompt) threads (models/           *)
(* Message.js) and the ChatService operations on them (services/           *)
(* ChatService.js, the revision that stores messages in their own          *)
(* collection).  Ids are positions: a chat's id is its index in chats, a   *)
(* prompt's id its index in the chat's prompts; a removed chat keeps its   *)
(* slot with exists = FALSE.  Texts are sequences of characters.  Of the   *)
(* timestamps Mongoose maintains only createdAt is kept.                   *)
(*                                                                         *)
(* The revision of the Chat document that keeps its messages in one flat   *)
(* list, with the ChatService revision that answers with an AI reply, is   *)
(* modelled next to it in its own collection (flat).  The authenticate     *)
(* middleware (middleware/auth.js) and the controllers' response bodies    *)
(* (controllers/AuthController.js) are modelled for the routes that        *)
(* answer with a user object.                                              *)
(*                                                                         *)
(* Every service call is one action: Node runs a handler to completion     *)
(* between awaits and the sequential claims speak of completed calls.      *)
(* register, User.authenticate, chat.addMessage and sendMessage are        *)
(* additionally available as their awaited steps (the lookup and the       *)
(* writes) so that concurrent calls can interleave.                        *)
(***************************************************************************)
EXTENDS Integers, Sequences, FiniteSets, TLC

VARIABLES
    users,        \* the users collection: user id -> User document
    nextUserId,   \* next fresh _id handed out by the collection
    now,          \* Date.now(), in milliseconds
    ticks,        \* number of clock advances so far
    resp,         \* the request just served and its response envelope
    issued,       \* refresh tokens handed to clients so far
    streak,       \* per user id: consecutive wrong-password logins
    pendingReg,   \* register calls between their findOne and their save
    resetIssued,  \* raw reset tokens handed out so far
    nextReset,    \* next fresh crypto.randomBytes value
    chats,        \* the chats collection: chat id -> Chat document
    threads,      \* the messages collection: thread id -> Message document
    loggedOut,    \* refresh tokens a completed logout was called with
    superseded,   \* refresh tokens issued before a successful changePassword
    pendingAdd,   \* chat.addMessage calls between their findOne and save
    flat,         \* the chats collection of the flat-message revision
    pendingLogin, \* User.authenticate calls between their findOne and update
    pendingSend   \* sendMessage calls between their awaits

vars == <<users, nextUserId, now, ticks, resp, issued, streak, pendingReg,
          resetIssued, nextReset, chats, threads, loggedOut, superseded,
          pendingAdd, flat, pendingLogin, pendingSend>>

\* history of revocations, kept only by the specification that needs it
history == <<loggedOut, superseded>>

\* the state of the flat-message revision and of the calls in flight, left
\* alone by the specifications that are not about them
elsewhere == <<flat, pendingLogin, pendingSend>>

----------------------------------------------------------------------------
(* Bounds of the exploration *)

MaxUsers == 2
MaxTicks == 2
MaxAttempts == 7
MaxPending == 2
MaxResets == 1
MaxChats == 2
MaxThreads == 2
MaxEntries == 2
MaxPrompts == 2
MaxFailed == 1
MaxCalls == 2
MaxLimit == 2
MaxFlat == 3

(* Program constants *)

MAX_LOGIN_ATTEMPTS == 5
LOCK_TIME == 2 * 60 * 60 * 1000
RESET_EXPIRE == 10 * 60 * 1000
REFRESH_TOKEN_LIMIT == 5
JWT_REFRESH_EXPIRE == 7 * 24 * 60 * 60
JWT_EXPIRE == 15 * 60

(* A Date field that is not set (undefined) *)
NoDate == 0 - 1

(* Inputs *)

RawEmails == { <<"a">>, <<"A">>, <<"b">> }
Passwords == { "Passw0rd1", "Passw0rd2" }

----------------------------------------------------------------------------
(* Pure helpers *)

LowerChar(c) ==
    CASE c = "A" -> "a"
      [] c = "B" -> "b"
      [] OTHER -> c

\* an email taken as typed
normalizeEmail_asTyped(e) == e

\* express-validator's normalizeEmail() / the schema's lowercase setter
normalizeEmail(e) == [i \in DOMAIN e |-> LowerChar(e[i])]

\* pre("save") hook: the stored password is a bcrypt hash, never the text
bcryptHash(pw) == <<"bcrypt", pw>>

comparePassword(user, candidate) ==
    IF candidate = "" \/ user.password = <<>>
    THEN FALSE
    ELSE user.password = bcryptHash(candidate)

\* jwt.sign: payload {userId, email}, iat in whole seconds, no jti
generateAccessToken(uid, email) ==
    [kind |-> "access", userId |-> uid, email |-> email, iat |-> now \div 1000]

generateRefreshToken(uid, email) ==
    [kind |-> "refresh", userId |-> uid, email |-> email, iat |-> now \div 1000]

NoToken == [kind |-> "none", userId |-> 0, email |-> <<>>, iat |-> 0]

\* a string that is not a JWT signed with the refresh secret
ForgedToken == [kind |-> "forged", userId |-> 1, email |-> <<"a">>, iat |-> 0]

\* jwt.verify with JWT_REFRESH_SECRET: "ok", "expired" or "invalid"
verifyRefreshToken(t) ==
    IF t.kind # "refresh" THEN "invalid"
    ELSE IF now \div 1000 >= t.iat + JWT_REFRESH_EXPIRE THEN "expired"
    ELSE "ok"

\* Array.prototype.slice(-n)
sliceLast(s, n) == IF Len(s) <= n THEN s ELSE SubSeq(s, Len(s) - n + 1, Len(s))

\* Array.prototype.filter(x => x !== t)
RECURSIVE filterOut(_, _)
filterOut(s, t) ==
    IF s = <<>> THEN <<>>
    ELSE IF Head(s) = t THEN filterOut(Tail(s), t)
    ELSE <<Head(s)>> \o filterOut(Tail(s), t)

Range(s) == { s[i] : i \in DOMAIN s }

----------------------------------------------------------------------------
(* The User document *)

\* the name a local registration carries, and the unset avatar / googleId
LocalName == "n0"
NoAvatar == ""
NoGoogleId == ""

newUser(email, password) ==
    [ email              |-> normalizeEmail(email),
      password           |-> bcryptHash(password),
      refreshTokens      |-> <<>>,
      loginAttempts      |-> 0,
      lockUntil          |-> NoDate,
      resetPasswordToken |-> <<>>,
      resetPasswordExpire |-> NoDate,
      fullName           |-> LocalName,
      avatar             |-> NoAvatar,
      isVerified         |-> FALSE,
      authProvider       |-> "local",
      googleId           |-> NoGoogleId ]

\* the comparison of the virtual turned around
isLocked_inverted(u) == u.lockUntil # NoDate /\ u.lockUntil < now

isLocked(u) == u.lockUntil # NoDate /\ u.lockUntil > now

\* without the restart of the counter after an expired lock
incLoginAttempts_noRestart(u) ==
    IF u.loginAttempts + 1 >= MAX_LOGIN_ATTEMPTS
    THEN [u EXCEPT !.loginAttempts = @ + 1, !.lockUntil = now + LOCK_TIME]
    ELSE [u EXCEPT !.loginAttempts = @ + 1]

incLoginAttempts(u) ==
    IF u.lockUntil # NoDate /\ u.lockUntil < now
    THEN [u EXCEPT !.lockUntil = NoDate, !.loginAttempts = 1]
    ELSE IF u.loginAttempts + 1 >= MAX_LOGIN_ATTEMPTS /\ ~isLocked(u)
         THEN [u EXCEPT !.loginAttempts = @ + 1, !.lockUntil = now + LOCK_TIME]
         ELSE [u EXCEPT !.loginAttempts = @ + 1]

\* keeping the first five entries instead of the last five
addRefreshToken_keepOldest(u, t) ==
    LET pushed == Append(u.refreshTokens, t)
    IN  [u EXCEPT !.refreshTokens =
            IF Len(pushed) > REFRESH_TOKEN_LIMIT
            THEN SubSeq(pushed, 1, REFRESH_TOKEN_LIMIT)
            ELSE pushed]

addRefreshToken(u, t) ==
    LET pushed == Append(u.refreshTokens, t)
    IN  [u EXCEPT !.refreshTokens =
            IF Len(pushed) > REFRESH_TOKEN_LIMIT
            THEN sliceLast(pushed, REFRESH_TOKEN_LIMIT)
            ELSE pushed]

removeRefreshToken(u, t) ==
    [u EXCEPT !.refreshTokens = filterOut(u.refreshTokens, t)]

removeAllRefreshTokens(u) == [u EXCEPT !.refreshTokens = <<>>]

\* User.findOne({ email }): the ids of the matching documents
findByEmail(email) == { id \in DOMAIN users : users[id].email = email }

----------------------------------------------------------------------------
(* Responses *)

MsgChanged == "Password changed successfully. Please log in again."
MsgResetInvalid == "Password reset token is invalid or has expired"
MsgResetDone == "Password reset successful. Please log in with your new password."
MsgInvalid == "Invalid email or password"
MsgLocked == "Account temporarily locked due to too many failed login attempts. Please try again later."

\* the request just served (op, the user it resolved to, whether the supplied
\* password matched, what the account's lock looked like on entry) and the
\* envelope sent back (status, message, data)
\* a JavaScript quotient a / b, kept as its two operands
quotient(a, b) == [num |-> a, den |-> b]

\* two quotients are the same number
sameNumber(x, y) == x.num * y.den = y.num * x.den

\* the statistics member of a response that carries none
NoStats ==
    [ totalMessages |-> 0, totalTokens |-> 0, user |-> 0, assistant |-> 0,
      system |-> 0, averageResponseTime |-> quotient(0, 1) ]

\* the data member of a response: the chat and prompt it is about, the
\* thread documents and message entries it returns, a count, and the
\* statistics of a chat
Data(chatId, promptId, ts, entries, count) ==
    [chatId |-> chatId, promptId |-> promptId, threads |-> ts,
     entries |-> entries, count |-> count, stats |-> NoStats]

\* the data member of a response that carries none
NoData == Data(0, 0, {}, <<>>, 0)

\* what a chat request asked: the chat and caller a refused request named
\* (none: zeros) and the keys an update carried
NoRequest == [chatId |-> 0, userId |-> 0, keys |-> {}]

\* a user document as a plain object: its id, the paths it carries and
\* the refresh tokens it lists
toObject(id, u) ==
    [id |-> id, paths |-> DOMAIN u, refreshTokens |-> u.refreshTokens]

\* `delete object.path` for each of the paths, and select("-path ...")
without(object, paths) ==
    [object EXCEPT !.paths = @ \ paths,
                   !.refreshTokens = IF "refreshTokens" \in paths
                                     THEN <<>> ELSE @]

NoUser == [id |-> 0, paths |-> {}, refreshTokens |-> <<>>]

\* the paths register and the Google sign-in delete from the user object
\* they return, and those login deletes
REGISTER_HIDDEN == {"password", "refreshTokens", "googleId"}
LOGIN_HIDDEN == {"password", "refreshTokens", "loginAttempts", "lockUntil",
                 "googleId"}
PROFILE_HIDDEN == {"password", "refreshTokens", "loginAttempts", "lockUntil"}

Response(op, uid, pwOk, pre, status, message, access, refresh, reset) ==
    [ op |-> op, uid |-> uid, pwOk |-> pwOk, pre |-> pre, status |-> status,
      message |-> message, accessToken |-> access, refreshToken |-> refresh,
      resetToken |-> reset, data |-> NoData, req |-> NoRequest,
      user |-> NoUser ]

\* the result of a sign-in: the user object without the hidden paths and
\* the token pair
SignedIn(op, uid, pwOk, pre, status, message, access, refresh, u, hidden) ==
    [Response(op, uid, pwOk, pre, status, message, access, refresh, 0)
       EXCEPT !.user = without(toObject(uid, u), hidden)]

Failure(op, uid, pwOk, pre, status, message) ==
    Response(op, uid, pwOk, pre, status, message, NoToken, NoToken, 0)

NoResponse == Failure("none", 0, FALSE, "", 0, "")

\* how the lock of an account looks at the time of a request
lockState(u) ==
    IF u.lockUntil = NoDate THEN "unset"
    ELSE IF u.lockUntil > now THEN "locked"
    ELSE IF u.lockUntil = now THEN "boundary"
    ELSE "expired"

----------------------------------------------------------------------------
Init ==
    /\ users = <<>>
    /\ nextUserId = 1
    /\ now = 0
    /\ ticks = 0
    /\ resp = NoResponse
    /\ issued = {}
    /\ streak = [id \in 1..0 |-> 0]
    /\ pendingReg = {}
    /\ resetIssued = {}
    /\ nextReset = 1
    /\ chats = <<>>
    /\ threads = <<>>
    /\ loggedOut = {}
    /\ superseded = {}
    /\ pendingAdd = <<>>
    /\ flat = <<>>
    /\ pendingLogin = <<>>
    /\ pendingSend = <<>>

\* time passes
Tick(d) ==
    /\ ticks < MaxTicks
    /\ now' = now + d
    /\ ticks' = ticks + 1
    /\ UNCHANGED <<users, nextUserId, resp, issued, streak, pendingReg,
                   resetIssued, nextReset, chats, threads>>

----------------------------------------------------------------------------
(* AuthService.register *)

\* new User({...}).save() followed by token issue and addRefreshToken
createUser(email, password) ==
    LET id == nextUserId
        u0 == newUser(email, password)
        rt == generateRefreshToken(id, u0.email)
        at == generateAccessToken(id, u0.email)
    IN  /\ users' = [i \in DOMAIN users \cup {id} |->
                        IF i = id THEN addRefreshToken(u0, rt) ELSE users[i]]
        /\ nextUserId' = nextUserId + 1
        /\ streak' = [i \in DOMAIN streak \cup {id} |->
                        IF i = id THEN 0 ELSE streak[i]]
        /\ issued' = issued \cup {rt}
        /\ resp' = SignedIn("register", id, FALSE, "", 201,
                            "User registered successfully", at, rt,
                            addRefreshToken(u0, rt), REGISTER_HIDDEN)

\* the whole call, run to completion
Register(rawEmail, password) ==
    LET email == normalizeEmail(rawEmail)
    IN  /\ IF findByEmail(email) # {}
           THEN /\ resp' = Failure("register", 0, FALSE, "", 409,
                                   "User with this email already exists")
                /\ UNCHANGED <<users, nextUserId, streak, issued>>
           ELSE /\ nextUserId <= MaxUsers
                /\ createUser(email, password)
        /\ UNCHANGED <<now, ticks, pendingReg, resetIssued, nextReset,
                       chats, threads>>

\* first half of a register call: `await User.findOne({ email })`
RegisterCheck(rawEmail, password) ==
    LET email == normalizeEmail(rawEmail)
    IN  /\ Cardinality(pendingReg) < MaxPending
        /\ IF findByEmail(email) # {}
           THEN /\ resp' = Failure("register", 0, FALSE, "", 409,
                                   "User with this email already exists")
                /\ UNCHANGED pendingReg
           ELSE /\ [email |-> email, password |-> password] \notin pendingReg
                /\ pendingReg' = pendingReg \cup
                                   {[email |-> email, password |-> password]}
                /\ UNCHANGED resp
        /\ UNCHANGED <<users, nextUserId, now, ticks, issued, streak,
                       resetIssued, nextReset, chats, threads>>

\* second half: `await user.save()` against the unique email index; a
\* duplicate key error (code 11000) reaches errorHandler
RegisterSave(p) ==
    /\ p \in pendingReg
    /\ pendingReg' = pendingReg \ {p}
    /\ IF findByEmail(normalizeEmail(p.email)) # {}
       THEN /\ resp' = Failure("register", 0, FALSE, "", 409,
                               "email already exists")
            /\ UNCHANGED <<users, nextUserId, streak, issued>>
       ELSE /\ nextUserId <= MaxUsers
            /\ createUser(p.email, p.password)
    /\ UNCHANGED <<now, ticks, resetIssued, nextReset, chats, threads>>

----------------------------------------------------------------------------
(* User.authenticate + AuthService.login *)

bump(n) == IF n < MAX_LOGIN_ATTEMPTS THEN n + 1 ELSE n

Login(rawEmail, password) ==
    LET email == normalizeEmail(rawEmail)
        found == findByEmail(email)
    IN  /\ IF found = {}
           THEN /\ resp' = Failure("login", 0, FALSE, "", 401, MsgInvalid)
                /\ UNCHANGED <<users, issued, streak>>
           ELSE
             LET id == CHOOSE i \in found : TRUE
                 u == users[id]
                 ok == comparePassword(u, password)
             IN  IF isLocked(u)
                 THEN /\ u.loginAttempts < MaxAttempts
                      /\ users' = [users EXCEPT ![id] = incLoginAttempts(u)]
                      /\ streak' = [streak EXCEPT ![id] =
                                       IF ok THEN @ ELSE bump(@)]
                      /\ resp' = Failure("login", id, ok, lockState(u), 401,
                                         MsgLocked)
                      /\ UNCHANGED issued
                 ELSE IF ok
                 THEN LET u1 == IF u.loginAttempts > 0
                                THEN [u EXCEPT !.loginAttempts = 0,
                                               !.lockUntil = NoDate]
                                ELSE u
                          rt == generateRefreshToken(id, u.email)
                          at == generateAccessToken(id, u.email)
                      IN  /\ users' = [users EXCEPT ![id] =
                                          addRefreshToken(u1, rt)]
                          /\ streak' = [streak EXCEPT ![id] = 0]
                          /\ issued' = issued \cup {rt}
                          /\ resp' = SignedIn("login", id, TRUE, lockState(u),
                                              200, "Login successful",
                                              at, rt, addRefreshToken(u1, rt),
                                              LOGIN_HIDDEN)
                 ELSE /\ u.loginAttempts < MaxAttempts
                      /\ users' = [users EXCEPT ![id] = incLoginAttempts(u)]
                      /\ streak' = [streak EXCEPT ![id] = bump(@)]
                      /\ resp' = Failure("login", id, FALSE, lockState(u), 401,
                                         MsgInvalid)
                      /\ UNCHANGED issued
        /\ UNCHANGED <<nextUserId, now, ticks, pendingReg, resetIssued,
                       nextReset, chats, threads>>

----------------------------------------------------------------------------
(* User.authenticate as its awaited steps: logins of different requests
   interleave between the findOne and the updateOne *)

\* the update incLoginAttempts sends, computed from the document the call
\* read (this) and applied by the database to the stored document:
\* $unset lockUntil / $set loginAttempts: 1 after an expired lock, else
\* $inc loginAttempts, with $set lockUntil when this.loginAttempts + 1
\* reaches the maximum and this is not locked
incLoginAttemptsOn(this, stored) ==
    IF this.lockUntil # NoDate /\ this.lockUntil < now
    THEN [stored EXCEPT !.lockUntil = NoDate, !.loginAttempts = 1]
    ELSE IF this.loginAttempts + 1 >= MAX_LOGIN_ATTEMPTS /\ ~isLocked(this)
         THEN [stored EXCEPT !.loginAttempts = @ + 1,
                             !.lockUntil = now + LOCK_TIME]
         ELSE [stored EXCEPT !.loginAttempts = @ + 1]

\* await this.findOne({ email }).select("+password"): the call keeps the
\* document it read
LoginFind(rawEmail, password) ==
    LET email == normalizeEmail(rawEmail)
        found == findByEmail(email)
    IN  /\ IF found = {}
           THEN /\ resp' = Failure("login", 0, FALSE, "", 401, MsgInvalid)
                /\ UNCHANGED pendingLogin
           ELSE LET id == CHOOSE i \in found : TRUE
                IN  /\ Len(pendingLogin) < MaxCalls
                    /\ pendingLogin' = Append(pendingLogin,
                           [id |-> id, user |-> users[id],
                            password |-> password])
                    /\ UNCHANGED resp
        /\ UNCHANGED <<users, nextUserId, now, ticks, issued, streak,
                       pendingReg, resetIssued, nextReset, chats, threads,
                       history, pendingAdd, flat, pendingSend>>

\* the calls in flight other than the k-th
withoutCall(calls, k) ==
    SubSeq(calls, 1, k - 1) \o SubSeq(calls, k + 1, Len(calls))

\* the rest of the k-th login in flight: the lock check and the password
\* comparison on the document it read, then its updateOne on the stored
\* document; a successful login goes on to issue tokens and saves its
\* refreshTokens list
LoginUpdate(k) ==
    /\ k \in DOMAIN pendingLogin
    /\ LET call == pendingLogin[k]
           id == call.id
           this == call.user
           ok == comparePassword(this, call.password)
       IN  /\ id \in DOMAIN users
           /\ pendingLogin' = withoutCall(pendingLogin, k)
           /\ IF isLocked(this)
              THEN /\ users[id].loginAttempts < MaxAttempts
                   /\ users' = [users EXCEPT
                                   ![id] = incLoginAttemptsOn(this, @)]
                   /\ streak' = [streak EXCEPT ![id] =
                                    IF ok THEN @ ELSE bump(@)]
                   /\ resp' = Failure("login", id, ok, lockState(this), 401,
                                      MsgLocked)
                   /\ UNCHANGED issued
              ELSE IF ok
              THEN LET rt == generateRefreshToken(id, this.email)
                       at == generateAccessToken(id, this.email)
                       reset == IF this.loginAttempts > 0
                                THEN [users[id] EXCEPT !.loginAttempts = 0,
                                                       !.lockUntil = NoDate]
                                ELSE users[id]
                   IN  /\ users' = [users EXCEPT ![id] =
                                       [reset EXCEPT !.refreshTokens =
                                          addRefreshToken(this, rt)
                                            .refreshTokens]]
                       /\ streak' = [streak EXCEPT ![id] = 0]
                       /\ issued' = issued \cup {rt}
                       /\ resp' = SignedIn("login", id, TRUE,
                                           lockState(this), 200,
                                           "Login successful", at, rt,
                                           addRefreshToken(this, rt),
                                           LOGIN_HIDDEN)
              ELSE /\ users[id].loginAttempts < MaxAttempts
                   /\ users' = [users EXCEPT
                                   ![id] = incLoginAttemptsOn(this, @)]
                   /\ streak' = [streak EXCEPT ![id] = bump(@)]
                   /\ resp' = Failure("login", id, FALSE, lockState(this),
                                      401, MsgInvalid)
                   /\ UNCHANGED issued
    /\ UNCHANGED <<nextUserId, now, ticks, pendingReg, resetIssued,
                   nextReset, chats, threads, history, pendingAdd, flat,
                   pendingSend>>

----------------------------------------------------------------------------
(* middleware/auth.js authenticate, and the routes behind it that answer
   with a user object *)

\* jwt.verify with JWT_SECRET: "ok", "expired" or "invalid"
verifyAccessToken(t) ==
    IF t.kind # "access" THEN "invalid"
    ELSE IF now \div 1000 >= t.iat + JWT_EXPIRE THEN "expired"
    ELSE "ok"

\* the middleware that lets every request through as the token's user
authenticate_anyone(t) ==
    [status |-> 200, message |-> "",
     user |-> IF t.userId \in DOMAIN users
              THEN without(toObject(t.userId, users[t.userId]), {"password"})
              ELSE [NoUser EXCEPT !.id = t.userId]]

\* the middleware: status 200 stands for next() with req.user set, any
\* other status is the response it sends itself
authenticate(t) ==
    LET v == verifyAccessToken(t)
        refused(message) ==
            [status |-> 401, message |-> message, user |-> NoUser]
    IN  IF t = NoToken THEN refused("Access token is required")
        ELSE IF v = "expired" THEN refused("Access token has expired")
        ELSE IF v = "invalid" THEN refused("Invalid access token")
        ELSE IF t.userId \notin DOMAIN users THEN refused("User not found")
        ELSE [status |-> 200, message |-> "",
              user |-> without(toObject(t.userId, users[t.userId]),
                               {"password"})]

\* the access token signed together with a refresh token
accessTwin(t) == [t EXCEPT !.kind = "access"]

\* what a client may send as a bearer token: an access token it was given,
\* a refresh token, a forged string, or nothing
BearerTokens ==
    {accessTwin(t) : t \in issued} \cup issued
      \cup {resp.accessToken, ForgedToken, NoToken}

\* GET /me: answers with req.user as the middleware loaded it
Me(t) ==
    LET a == authenticate(t)
    IN  /\ resp' =
             IF a.status # 200
             THEN Failure("me", 0, FALSE, "", a.status, a.message)
             ELSE [Response("me", a.user.id, FALSE, "", 200,
                            "User authenticated", NoToken, NoToken, 0)
                     EXCEPT !.user = a.user]
        /\ UNCHANGED <<users, nextUserId, now, ticks, issued, streak,
                       pendingReg, resetIssued, nextReset, chats, threads,
                       history, pendingAdd, flat, pendingLogin, pendingSend>>

\* GET /profile: AuthService.getProfile(req.user._id)
GetProfile(t) ==
    LET a == authenticate(t)
    IN  /\ resp' =
             IF a.status # 200
             THEN Failure("getProfile", 0, FALSE, "", a.status, a.message)
             ELSE IF a.user.id \notin DOMAIN users
             THEN Failure("getProfile", 0, FALSE, "", 404, "User not found")
             ELSE [Response("getProfile", a.user.id, FALSE, "", 200,
                            "Profile retrieved successfully",
                            NoToken, NoToken, 0)
                     EXCEPT !.user = without(toObject(a.user.id,
                                                      users[a.user.id]),
                                             PROFILE_HIDDEN)]
        /\ UNCHANGED <<users, nextUserId, now, ticks, issued, streak,
                       pendingReg, resetIssued, nextReset, chats, threads,
                       history, pendingAdd, flat, pendingLogin, pendingSend>>

----------------------------------------------------------------------------
(* AuthService.refreshAccessToken / logout / logoutAll *)

\* a refresh that rotates: the presented token is dropped from the list
RefreshAccessToken_rotating(t) ==
    LET v == verifyRefreshToken(t)
        good == /\ v = "ok"
                /\ t.userId \in DOMAIN users
                /\ t \in Range(users[t.userId].refreshTokens)
    IN  /\ resp' =
             IF good
             THEN Response("refresh", t.userId, FALSE, "", 200,
                           "Token refreshed successfully",
                           generateAccessToken(t.userId,
                                               users[t.userId].email),
                           NoToken, 0)
             ELSE Failure("refresh", 0, FALSE, "", 401,
                          "Invalid refresh token")
        /\ users' = IF good
                    THEN [users EXCEPT ![t.userId] = removeRefreshToken(@, t)]
                    ELSE users
        /\ UNCHANGED <<nextUserId, now, ticks, issued, streak, pendingReg,
                       resetIssued, nextReset, chats, threads>>

RefreshAccessToken(t) ==
    LET v == verifyRefreshToken(t)
    IN  /\ resp' =
             IF v = "expired"
             THEN Failure("refresh", 0, FALSE, "", 401,
                          "Refresh token has expired")
             ELSE IF v = "invalid"
             THEN Failure("refresh", 0, FALSE, "", 401,
                          "Invalid refresh token")
             ELSE IF t.userId \notin DOMAIN users
             THEN Failure("refresh", 0, FALSE, "", 401, "User not found")
             ELSE IF t \notin Range(users[t.userId].refreshTokens)
             THEN Failure("refresh", t.userId, FALSE, "", 401,
                          "Invalid refresh token")
             ELSE Response("refresh", t.userId, FALSE, "", 200,
                           "Token refreshed successfully",
                           generateAccessToken(t.userId,
                                               users[t.userId].email),
                           NoToken, 0)
        /\ UNCHANGED <<users, nextUserId, now, ticks, issued, streak,
                       pendingReg, resetIssued, nextReset, chats, threads>>

Logout(uid, t) ==
    /\ IF uid \notin DOMAIN users
       THEN /\ resp' = Failure("logout", 0, FALSE, "", 404, "User not found")
            /\ UNCHANGED users
       ELSE /\ users' = [users EXCEPT ![uid] = removeRefreshToken(@, t)]
            /\ resp' = Failure("logout", uid, FALSE, "", 200,
                               "Logged out successfully")
    /\ UNCHANGED <<nextUserId, now, ticks, issued, streak, pendingReg,
                   resetIssued, nextReset, chats, threads>>

LogoutAll(uid) ==
    /\ IF uid \notin DOMAIN users
       THEN /\ resp' = Failure("logoutAll", 0, FALSE, "", 404,
                               "User not found")
            /\ UNCHANGED users
       ELSE /\ users' = [users EXCEPT ![uid] = removeAllRefreshTokens(@)]
            /\ resp' = Failure("logoutAll", uid, FALSE, "", 200,
                               "Logged out from all devices successfully")
    /\ UNCHANGED <<nextUserId, now, ticks, issued, streak, pendingReg,
                   resetIssued, nextReset, chats, threads>>

----------------------------------------------------------------------------
(* AuthService.changePassword / generatePasswordResetToken / resetPassword *)

ChangePassword(uid, currentPassword, newPassword) ==
    /\ IF uid \notin DOMAIN users
       THEN /\ resp' = Failure("changePassword", 0, FALSE, "", 404,
                               "User not found")
            /\ UNCHANGED users
       ELSE IF ~comparePassword(users[uid], currentPassword)
       THEN /\ resp' = Failure("changePassword", uid, FALSE, "", 401,
                               "Current password is incorrect")
            /\ UNCHANGED users
       ELSE /\ users' = [users EXCEPT ![uid] =
                           removeAllRefreshTokens(
                             [@ EXCEPT !.password = bcryptHash(newPassword)])]
            /\ resp' = Failure("changePassword", uid, TRUE, "", 200,
                               MsgChanged)
    /\ UNCHANGED <<nextUserId, now, ticks, issued, streak, pendingReg,
                   resetIssued, nextReset, chats, threads>>

\* crypto.createHash("sha256").update(token).digest("hex")
sha256(token) == <<"sha256", token>>

MsgGeneric == "If an account with that email exists, a password reset link has been sent."

GeneratePasswordResetToken(rawEmail) ==
    LET email == normalizeEmail(rawEmail)
        found == findByEmail(email)
    IN  /\ IF found = {}
           THEN /\ resp' = Failure("forgotPassword", 0, FALSE, "", 200,
                                   MsgGeneric)
                /\ UNCHANGED <<users, resetIssued, nextReset>>
           ELSE LET id == CHOOSE i \in found : TRUE
                    resetToken == nextReset
                IN  /\ nextReset <= MaxResets
                    /\ users' = [users EXCEPT ![id] =
                          [@ EXCEPT
                             !.resetPasswordToken = sha256(resetToken),
                             !.resetPasswordExpire = now + RESET_EXPIRE]]
                    /\ nextReset' = nextReset + 1
                    /\ resetIssued' = resetIssued \cup {resetToken}
                    /\ resp' = Response("forgotPassword", id, FALSE, "", 200,
                                        "Password reset token generated",
                                        NoToken, NoToken, resetToken)
        /\ UNCHANGED <<nextUserId, now, ticks, issued, streak, pendingReg,
                       chats, threads>>

\* the lookup without the expiry condition
findByResetToken_ignoreExpiry(hashedToken) ==
    { id \in DOMAIN users : users[id].resetPasswordToken = hashedToken }

\* User.findOne({ resetPasswordToken, resetPasswordExpire: { $gt: now } })
findByResetToken(hashedToken) ==
    { id \in DOMAIN users :
        /\ users[id].resetPasswordToken = hashedToken
        /\ users[id].resetPasswordExpire # NoDate
        /\ users[id].resetPasswordExpire > now }

ResetPassword(token, newPassword) ==
    LET found == findByResetToken(sha256(token))
    IN  /\ IF found = {}
           THEN /\ resp' = Failure("resetPassword", 0, FALSE, "", 400,
                                   MsgResetInvalid)
                /\ UNCHANGED users
           ELSE LET id == CHOOSE i \in found : TRUE
                IN  /\ users' = [users EXCEPT ![id] =
                          removeAllRefreshTokens(
                            [@ EXCEPT
                               !.password = bcryptHash(newPassword),
                               !.resetPasswordToken = <<>>,
                               !.resetPasswordExpire = NoDate])]
                    /\ resp' = Failure("resetPassword", id, FALSE, "", 200,
                                       MsgResetDone)
        /\ UNCHANGED <<nextUserId, now, ticks, issued, streak, pendingReg,
                       resetIssued, nextReset, chats, threads>>

----------------------------------------------------------------------------
(* Chats, message threads and AuthService.deleteProfile *)

PromptIds == {1}

\* constants/messageRoles.js
MESSAGE_ROLES == {"user", "assistant", "system", "bot", "moderator",
                  "notification", "tool", "function", "error"}

\* String.prototype.trim, as the schema's `trim: true` setter applies it;
\* texts are sequences of characters
RECURSIVE trimLeft(_)
trimLeft(s) == IF s # <<>> /\ Head(s) = " " THEN trimLeft(Tail(s)) ELSE s

RECURSIVE trimRight(_)
trimRight(s) ==
    IF s # <<>> /\ s[Len(s)] = " "
    THEN trimRight(SubSeq(s, 1, Len(s) - 1)) ELSE s

trim(s) == trimRight(trimLeft(s))

\* createChat's defaults: settings.maxMessages || 100, autoArchive || false,
\* autoArchiveDays || 30, title || `Chat ${date}`
DefaultSettings ==
    [maxMessages |-> 100, autoArchive |-> FALSE, autoArchiveDays |-> 30]

DefaultTitle == "Chat <date>"

\* new Chat({ userId, title, initialPrompt, settings }) with the schema's
\* defaults; exists is FALSE once findByIdAndDelete has removed the document
newChat(uid) ==
    [ userId        |-> uid,
      status        |-> "active",
      exists        |-> TRUE,
      title         |-> DefaultTitle,
      settings      |-> DefaultSettings,
      tags          |-> {},
      initialPrompt |-> "",
      prompts       |-> <<>>,
      createdAt     |-> now ]

\* ChatService.createChat
CreateChat(uid) ==
    /\ IF uid \notin DOMAIN users
       THEN /\ resp' = Failure("createChat", 0, FALSE, "", 404,
                               "User not found")
            /\ UNCHANGED chats
       ELSE /\ Len(chats) < MaxChats
            /\ chats' = Append(chats, newChat(uid))
            /\ resp' = Failure("createChat", uid, FALSE, "", 201,
                               "Chat created successfully")
    /\ UNCHANGED <<users, nextUserId, now, ticks, issued, streak, pendingReg,
                   resetIssued, nextReset, threads>>

\* Message.findOne({ chatId, promptId, deleted: false })
liveThreads(chatId, promptId) ==
    { i \in DOMAIN threads :
        /\ threads[i].chatId = chatId
        /\ threads[i].promptId = promptId
        /\ ~threads[i].deleted }

\* an entry of a thread as individualMessageSchema stores it
newEntry(role, content) == [role |-> role, content |-> trim(content)]

\* an append that starts a new thread whether or not a live one exists
addToThread_alwaysNew(chatId, promptId, role, content) ==
    Append(threads,
           [chatId |-> chatId, promptId |-> promptId,
            userId |-> chats[chatId].userId,
            messages |-> <<newEntry(role, content)>>,
            deleted |-> FALSE])

\* the body of chat.addMessage(promptId, role, content): the messages
\* collection after the entry went to the live thread of (chat, prompt), or
\* to a new thread when there is none
addToThread(chatId, promptId, role, content) ==
    LET live == liveThreads(chatId, promptId)
    IN  IF live # {}
        THEN LET i == CHOOSE j \in live : \A k \in live : j <= k
             IN  [threads EXCEPT ![i].messages =
                     Append(@, newEntry(role, content))]
        ELSE Append(threads,
                    [chatId |-> chatId, promptId |-> promptId,
                     userId |-> chats[chatId].userId,
                     messages |-> <<newEntry(role, content)>>,
                     deleted |-> FALSE])

\* the collection stays within the exploration's bounds
withinBounds(ts) ==
    /\ Len(ts) <= MaxThreads
    /\ \A i \in DOMAIN ts : Len(ts[i].messages) <= MaxEntries

\* authenticate + chat.addMessage(promptId, role, content) on a chat
\* document: the caller is the chat's owner and must still have a user
\* record; Message's validation rejects a role outside MESSAGE_ROLES
AddMessage(chatId, promptId, role, content) ==
    /\ chatId \in DOMAIN chats
    /\ chats[chatId].exists
    /\ IF chats[chatId].userId \notin DOMAIN users
       THEN /\ resp' = Failure("addMessage", 0, FALSE, "", 401,
                               "User not found")
            /\ UNCHANGED threads
       ELSE IF role \notin MESSAGE_ROLES
       THEN /\ resp' = Failure("addMessage", chats[chatId].userId, FALSE,
                               "", 400, "Validation Error")
            /\ UNCHANGED threads
       ELSE /\ withinBounds(addToThread(chatId, promptId, role, content))
            /\ threads' = addToThread(chatId, promptId, role, content)
            /\ resp' = Failure("addMessage", chats[chatId].userId, FALSE,
                               "", 201, "Message added successfully")
    /\ UNCHANGED <<users, nextUserId, now, ticks, issued, streak,
                   pendingReg, resetIssued, nextReset, chats>>

----------------------------------------------------------------------------
(* ChatService: ownership-checked access to a chat *)

\* chat ids a request can carry: 0 is a malformed id, the others are
\* well-formed, whether or not a chat has them
MalformedChatId == 0
ChatIdInputs == 0..(MaxChats + 1)

MsgChatNotFound == "Chat not found"
MsgInvalidChatId == "Invalid chat ID"

\* the answer of a chat operation: envelope plus returned data
ChatResponse(op, uid, status, message, data) ==
    [Failure(op, uid, FALSE, "", status, message) EXCEPT !.data = data]

\* a lookup by id alone
findOwnedChat_anyOwner(chatId, userId) ==
    IF chatId \in DOMAIN chats /\ chats[chatId].exists
    THEN {chatId} ELSE {}

\* Chat.findOne({ _id: chatId, userId })
findOwnedChat(chatId, userId) ==
    IF /\ chatId \in DOMAIN chats
       /\ chats[chatId].exists
       /\ chats[chatId].userId = userId
    THEN {chatId} ELSE {}

\* ChatService.getChatById: 400 for a malformed id, 404 when findOne finds
\* nothing, else 200
getChatById(chatId, userId) ==
    IF chatId = MalformedChatId THEN 400
    ELSE IF findOwnedChat(chatId, userId) = {} THEN 404
    ELSE 200

\* what a caller gets when getChatById throws
chatError(op, chatId, userId) ==
    [ (IF getChatById(chatId, userId) = 400
       THEN ChatResponse(op, 0, 400, MsgInvalidChatId, NoData)
       ELSE ChatResponse(op, 0, 404, MsgChatNotFound, NoData))
      EXCEPT !.req = [NoRequest EXCEPT !.chatId = chatId,
                                       !.userId = userId] ]

\* the live threads of a chat, optionally of one prompt (0: all prompts)
threadsOfChat(chatId, promptId) ==
    { i \in DOMAIN threads :
        /\ threads[i].chatId = chatId
        /\ ~threads[i].deleted
        /\ (promptId # 0 => threads[i].promptId = promptId) }

(* Statistics helpers shared by the revisions of getChatStatistics *)

\* messages.reduce((total, m) => total + (m.metadata?.tokenCount || 0), 0)
RECURSIVE totalTokens(_)
totalTokens(ms) ==
    IF ms = <<>> THEN 0 ELSE Head(ms).tokenCount + totalTokens(Tail(ms))

\* messages.filter(m => m.role === role).length
RECURSIVE countRole(_, _)
countRole(ms, role) ==
    IF ms = <<>> THEN 0
    ELSE (IF Head(ms).role = role THEN 1 ELSE 0) + countRole(Tail(ms), role)

\* a loop that pairs a user message with whatever follows it
RECURSIVE responseTimes_anyReply(_, _)
responseTimes_anyReply(messages, i) ==
    IF i >= Len(messages) THEN <<>>
    ELSE (IF messages[i].role = "user"
          THEN <<messages[i + 1].timestamp - messages[i].timestamp>>
          ELSE <<>>) \o responseTimes_anyReply(messages, i + 1)

\* the loop of calculateAverageResponseTime from position i on: the
\* response times pushed to pairs
RECURSIVE responseTimes(_, _)
responseTimes(messages, i) ==
    IF i >= Len(messages) THEN <<>>
    ELSE (IF /\ messages[i].role = "user"
             /\ messages[i + 1].role = "assistant"
          THEN <<messages[i + 1].timestamp - messages[i].timestamp>>
          ELSE <<>>) \o responseTimes(messages, i + 1)

\* pairs.reduce((sum, time) => sum + time, 0)
RECURSIVE sumOf(_)
sumOf(pairs) == IF pairs = <<>> THEN 0 ELSE Head(pairs) + sumOf(Tail(pairs))

\* ChatService.calculateAverageResponseTime
calculateAverageResponseTime(messages) ==
    LET pairs == responseTimes(messages, 1)
    IN  IF Len(pairs) = 0 THEN quotient(0, 1)
        ELSE quotient(sumOf(pairs), Len(pairs))

\* what reading a member gives when the document's schema has no such path
Undefined == "undefined"

\* Message.find({ chatId, deleted: false }).sort({ timestamp: 1 }): the
\* ids of the thread documents found, from position i on; the documents
\* have no timestamp member to sort by
RECURSIVE findThreads(_, _)
findThreads(chatId, i) ==
    IF i > Len(threads) THEN <<>>
    ELSE (IF threads[i].chatId = chatId /\ ~threads[i].deleted
          THEN <<i>> ELSE <<>>) \o findThreads(chatId, i + 1)

\* m.role, m.timestamp and m.metadata?.tokenCount || 0 as getChatStatistics
\* reads them from a thread document: messageSchema has the paths chatId,
\* promptId, userId, messages and deleted only
threadView(i) ==
    [role |-> Undefined, timestamp |-> NoDate, tokenCount |-> 0]

\* ChatService.getChatStatistics: the numbers computed over the documents
\* Message.find returned
chatStatistics(chatId) ==
    LET found == findThreads(chatId, 1)
        messages == [k \in DOMAIN found |-> threadView(found[k])]
    IN  [ totalMessages       |-> Len(messages),
          totalTokens         |-> totalTokens(messages),
          user                |-> countRole(messages, "user"),
          assistant           |-> countRole(messages, "assistant"),
          system              |-> countRole(messages, "system"),
          averageResponseTime |-> calculateAverageResponseTime(messages) ]

\* the read operations built on getChatById: getChatById itself,
\* getMessages, searchMessages, getChatStatistics and exportChat
ReadOps == {"getChatById", "getMessages", "searchMessages",
            "getChatStatistics", "exportChat"}

\* what each read returns for a chat it was allowed to fetch: the chat
\* document, the thread documents of the chat (of one prompt when asked),
\* or numbers computed over them
readData(op, chatId, promptId) ==
    CASE op = "getChatById" ->
            Data(chatId, 0, {}, <<>>, Len(chats[chatId].prompts))
      [] op = "getMessages" ->
            Data(chatId, promptId, threadsOfChat(chatId, promptId), <<>>,
                 Cardinality(threadsOfChat(chatId, promptId)))
      [] op = "searchMessages" ->
            Data(chatId, promptId, threadsOfChat(chatId, promptId), <<>>,
                 Cardinality(threadsOfChat(chatId, promptId)))
      [] op = "getChatStatistics" ->
            [Data(chatId, 0, {}, <<>>, Cardinality(threadsOfChat(chatId, 0)))
             EXCEPT !.stats = chatStatistics(chatId)]
      [] OTHER -> Data(chatId, 0, threadsOfChat(chatId, 0), <<>>, 0)

ReadChat(op, chatId, userId, promptId) ==
    /\ resp' = IF getChatById(chatId, userId) = 200
               THEN ChatResponse(op, userId, 200, "OK",
                                 readData(op, chatId, promptId))
               ELSE chatError(op, chatId, userId)
    /\ UNCHANGED <<users, nextUserId, now, ticks, issued, streak, pendingReg,
                   resetIssued, nextReset, chats, threads>>

----------------------------------------------------------------------------
(* ChatService.sendMessage / addMessage *)

\* chatSchema.virtual("activePrompts"): prompts.filter(p => p.isActive);
\* a prompt's id is its position in the chat's prompts list
activePrompts(chat) == { i \in DOMAIN chat.prompts : chat.prompts[i].isActive }

\* the prompt sendMessage creates when the chat has no active prompt
DefaultPrompt == [isActive |-> TRUE, background |-> "General conversation"]

\* chat.addPrompt(promptData): push, the new sub-document is the last one
addPrompt(chat, promptData) ==
    [chat EXCEPT !.prompts = Append(@, promptData)]

\* message payloads as they can reach sendMessage: a string, an object
\* (with text / content / message members, <<>> when missing or empty, and
\* whatever else it carries) or another primitive (text: its String())
Payloads ==
    { [kind |-> "string", text |-> <<"h">>, content |-> <<>>,
       message |-> <<>>, other |-> <<>>],
      [kind |-> "string", text |-> <<" ", "h", " ">>, content |-> <<>>,
       message |-> <<>>, other |-> <<>>],
      [kind |-> "string", text |-> <<" ">>, content |-> <<>>,
       message |-> <<>>, other |-> <<>>],
      [kind |-> "object", text |-> <<"t">>, content |-> <<"c">>,
       message |-> <<"m">>, other |-> <<>>],
      [kind |-> "object", text |-> <<>>, content |-> <<"c">>,
       message |-> <<"m">>, other |-> <<>>],
      [kind |-> "object", text |-> <<>>, content |-> <<>>,
       message |-> <<"m">>, other |-> <<>>],
      [kind |-> "object", text |-> <<>>, content |-> <<>>,
       message |-> <<>>, other |-> <<"x">>],
      [kind |-> "other", text |-> <<"7">>, content |-> <<>>,
       message |-> <<>>, other |-> <<>>] }

\* the one payload the access scenario sends
AccessPayload ==
    [kind |-> "string", text |-> <<"h">>, content |-> <<>>,
     message |-> <<>>, other |-> <<>>]

\* JSON.stringify of an object payload
stringify(p) == <<"{">> \o p.other \o <<"}">>

\* a coercion that prefers the content member
messageContent_contentFirst(p) ==
    IF p.kind = "object"
    THEN IF p.content # <<>> THEN p.content
         ELSE IF p.text # <<>> THEN p.text
         ELSE IF p.message # <<>> THEN p.message
         ELSE stringify(p)
    ELSE p.text

\* userMessage.text || userMessage.content || userMessage.message ||
\* JSON.stringify(userMessage) for an object, the string itself, or String()
messageContent(p) ==
    IF p.kind = "object"
    THEN IF p.text # <<>> THEN p.text
         ELSE IF p.content # <<>> THEN p.content
         ELSE IF p.message # <<>> THEN p.message
         ELSE stringify(p)
    ELSE p.text

\* individualMessageSchema: role in the enum; content is not required
\* (required: [false, ...]), so a text that trims to nothing is stored
validEntry(role, content) == role \in MESSAGE_ROLES

\* prompt ids a request can carry: 0 when it carries none
PromptIdInputs == 0..MaxPrompts

\* chat.addMessage(promptId, threadId, role, content, metadata) as the
\* service calls it: the entry (role, content) goes to the thread of
\* (chat, prompt)
chatAddMessage(chatId, promptId, role, content) ==
    addToThread(chatId, promptId, role, content)

\* a sendMessage that creates its default prompt on every call without
\* promptId
SendMessage_alwaysDefault(chatId, userId, payload, promptId) ==
    /\ IF getChatById(chatId, userId) # 200
       THEN /\ resp' = chatError("sendMessage", chatId, userId)
            /\ UNCHANGED <<chats, threads>>
       ELSE LET chat == chats[chatId]
                needDefault == promptId = 0
                pid == IF promptId # 0 THEN promptId
                       ELSE Len(chat.prompts) + 1
                content == messageContent(payload)
                valid == validEntry("user", content)
                ts == IF valid
                      THEN chatAddMessage(chatId, pid, "user", content)
                      ELSE threads
            IN  /\ needDefault => Len(chat.prompts) < MaxPrompts
                /\ withinBounds(ts)
                /\ chats' = IF needDefault
                            THEN [chats EXCEPT ![chatId] =
                                     addPrompt(chat, DefaultPrompt)]
                            ELSE chats
                /\ threads' = ts
                /\ resp' = IF valid
                           THEN ChatResponse("sendMessage", userId, 200,
                                  "Message sent successfully",
                                  Data(chatId, pid, {},
                                       <<newEntry("user", content)>>, 1))
                           ELSE ChatResponse("sendMessage", userId, 400,
                                  "Validation Error", NoData)
    /\ UNCHANGED <<users, nextUserId, now, ticks, issued, streak, pendingReg,
                   resetIssued, nextReset>>

\* ChatService.sendMessage({ chatId, userId, userMessage, promptId })
SendMessage(chatId, userId, payload, promptId) ==
    /\ IF getChatById(chatId, userId) # 200
       THEN /\ resp' = chatError("sendMessage", chatId, userId)
            /\ UNCHANGED <<chats, threads>>
       ELSE LET chat == chats[chatId]
                active == activePrompts(chat)
                needDefault == promptId = 0 /\ active = {}
                pid == IF promptId # 0 THEN promptId
                       ELSE IF active # {}
                       THEN CHOOSE i \in active : \A j \in active : i <= j
                       ELSE Len(chat.prompts) + 1
                content == messageContent(payload)
                valid == validEntry("user", content)
                ts == IF valid
                      THEN chatAddMessage(chatId, pid, "user", content)
                      ELSE threads
            IN  /\ needDefault => Len(chat.prompts) < MaxPrompts
                /\ withinBounds(ts)
                /\ chats' = IF needDefault
                            THEN [chats EXCEPT ![chatId] =
                                     addPrompt(chat, DefaultPrompt)]
                            ELSE chats
                /\ threads' = ts
                /\ resp' = IF valid
                           THEN ChatResponse("sendMessage", userId, 200,
                                  "Message sent successfully",
                                  Data(chatId, pid, {},
                                       <<newEntry("user", content)>>, 1))
                           ELSE ChatResponse("sendMessage", userId, 400,
                                  "Validation Error", NoData)
    /\ UNCHANGED <<users, nextUserId, now, ticks, issued, streak, pendingReg,
                   resetIssued, nextReset>>

\* ChatService.addMessage({ chatId, userId, role, content, promptId })
ServiceAddMessage(chatId, userId, role, content, promptId) ==
    /\ IF role \notin MESSAGE_ROLES
       THEN /\ resp' = ChatResponse("addMessage", 0, 400,
                                    "Invalid message role", NoData)
            /\ UNCHANGED threads
       ELSE IF getChatById(chatId, userId) # 200
       THEN /\ resp' = chatError("addMessage", chatId, userId)
            /\ UNCHANGED threads
       ELSE LET active == activePrompts(chats[chatId])
            IN  IF promptId = 0 /\ active = {}
                THEN /\ resp' = ChatResponse("addMessage", userId, 400,
                                  "No active prompt found", NoData)
                     /\ UNCHANGED threads
                ELSE LET pid == IF promptId # 0 THEN promptId
                                ELSE CHOOSE i \in active :
                                        \A j \in active : i <= j
                         valid == validEntry(role, content)
                         ts == IF valid
                               THEN chatAddMessage(chatId, pid, role, content)
                               ELSE threads
                     IN  /\ withinBounds(ts)
                         /\ threads' = ts
                         /\ resp' = IF valid
                                    THEN ChatResponse("addMessage", userId,
                                           201, "Message added successfully",
                                           Data(chatId, pid, {},
                                                <<newEntry(role, content)>>,
                                                1))
                                    ELSE ChatResponse("addMessage", userId,
                                           400, "Validation Error", NoData)
    /\ UNCHANGED <<users, nextUserId, now, ticks, issued, streak, pendingReg,
                   resetIssued, nextReset, chats>>

----------------------------------------------------------------------------
(* ChatService.updateChat / deleteChat, Chat.archiveOldChats *)

ChatStatuses == {"active", "archived", "deleted"}

\* the keys an update request can carry; the first five are allowedUpdates
AllowedUpdates == {"title", "settings", "tags", "status", "initialPrompt"}

\* update requests: keys names the members present, skeys the members of
\* its settings object; the other fields hold their values
UpdateValues ==
    [title |-> "t2", settings |-> [maxMessages |-> 50, autoArchive |-> TRUE,
                                   autoArchiveDays |-> 7],
     tags |-> {"x"}, initialPrompt |-> "ip2", userId |-> 2,
     prompts |-> <<>>]

UpdateInputs ==
    { [keys |-> k, skeys |-> {"autoArchive"}, status |-> "active",
       values |-> UpdateValues] :
        k \in { {"title", "tags", "initialPrompt"},
                {"userId", "prompts"} } }
    \cup
    { [keys |-> {"settings"}, skeys |-> sk, status |-> "active",
       values |-> UpdateValues] :
        sk \in { {"autoArchive"}, {"maxMessages", "autoArchiveDays"} } }
    \cup
    { [keys |-> k, skeys |-> {"autoArchive"}, status |-> st,
       values |-> UpdateValues] :
        k \in { {"status"},
                {"title", "tags", "initialPrompt", "userId", "prompts",
                 "status"} },
        st \in ChatStatuses \cup {"bogus"} }

\* { ...chat.settings, ...updates.settings }
mergeSettings(settings, u) ==
    [k \in DOMAIN settings |->
        IF k \in u.skeys THEN u.values.settings[k] ELSE settings[k]]

\* an update that assigns every key of the request
applyUpdates_allKeys(chat, u) ==
    [chat EXCEPT
        !.title = IF "title" \in u.keys THEN u.values.title ELSE @,
        !.settings = IF "settings" \in u.keys
                     THEN mergeSettings(@, u) ELSE @,
        !.tags = IF "tags" \in u.keys THEN u.values.tags ELSE @,
        !.status = IF "status" \in u.keys THEN u.status ELSE @,
        !.initialPrompt = IF "initialPrompt" \in u.keys
                          THEN u.values.initialPrompt ELSE @,
        !.userId = IF "userId" \in u.keys THEN u.values.userId ELSE @,
        !.prompts = IF "prompts" \in u.keys THEN u.values.prompts ELSE @]

\* filteredUpdates over allowedUpdates, then Object.assign(chat, ...)
applyUpdates(chat, u) ==
    [chat EXCEPT
        !.title = IF "title" \in u.keys THEN u.values.title ELSE @,
        !.settings = IF "settings" \in u.keys
                     THEN mergeSettings(@, u) ELSE @,
        !.tags = IF "tags" \in u.keys THEN u.values.tags ELSE @,
        !.status = IF "status" \in u.keys THEN u.status ELSE @,
        !.initialPrompt = IF "initialPrompt" \in u.keys
                          THEN u.values.initialPrompt ELSE @]

\* the one update the access scenario sends
AccessUpdate ==
    [keys |-> {"status", "userId"}, skeys |-> {"autoArchive"},
     status |-> "deleted", values |-> UpdateValues]

\* ChatService.updateChat({ chatId, userId, updates }); chat.save() runs
\* the schema validation (status enum) before anything is written
UpdateChat(chatId, userId, u) ==
    /\ IF getChatById(chatId, userId) # 200
       THEN /\ resp' = chatError("updateChat", chatId, userId)
            /\ UNCHANGED chats
       ELSE LET updated == applyUpdates(chats[chatId], u)
            IN  IF updated.status \notin ChatStatuses
                THEN /\ resp' = [ChatResponse("updateChat", userId, 400,
                                              "Validation Error", NoData)
                                 EXCEPT !.req.keys = u.keys]
                     /\ UNCHANGED chats
                ELSE /\ chats' = [chats EXCEPT ![chatId] = updated]
                     /\ resp' = [ChatResponse("updateChat", userId, 200,
                                    "Chat updated successfully",
                                    Data(chatId, 0, {}, <<>>, 0))
                                 EXCEPT !.req.keys = u.keys]
    /\ UNCHANGED <<users, nextUserId, now, ticks, issued, streak, pendingReg,
                   resetIssued, nextReset, threads>>

\* ChatService.deleteChat({ chatId, userId, permanent })
DeleteChat(chatId, userId, permanent) ==
    /\ IF getChatById(chatId, userId) # 200
       THEN /\ resp' = chatError("deleteChat", chatId, userId)
            /\ UNCHANGED chats
       ELSE /\ chats' = IF permanent
                        THEN [chats EXCEPT ![chatId].exists = FALSE]
                        ELSE [chats EXCEPT ![chatId].status = "deleted"]
            /\ resp' = ChatResponse("deleteChat", userId, 200,
                                    "Chat deleted successfully",
                                    Data(chatId, 0, {}, <<>>, 0))
    /\ UNCHANGED <<users, nextUserId, now, ticks, issued, streak, pendingReg,
                   resetIssued, nextReset, threads>>

DAY == 24 * 60 * 60 * 1000

\* an archive sweep that takes every old chat, whatever its status
ArchiveOldChats_anyStatus(daysSinceCreation) ==
    LET cutoff == now - daysSinceCreation * DAY
        hit(c) == /\ chats[c].exists
                  /\ chats[c].createdAt < cutoff
    IN  /\ chats' = [c \in DOMAIN chats |->
                        IF hit(c) THEN [chats[c] EXCEPT !.status = "archived"]
                        ELSE chats[c]]
        /\ resp' = ChatResponse("archiveOldChats", 0, 200, "",
                      Data(0, 0, {}, <<>>,
                           Cardinality({ c \in DOMAIN chats : hit(c) })))
        /\ UNCHANGED <<users, nextUserId, now, ticks, issued, streak,
                       pendingReg, resetIssued, nextReset, threads>>

\* Chat.archiveOldChats(daysSinceCreation): updateMany over the active
\* chats created before the cutoff
ArchiveOldChats(daysSinceCreation) ==
    LET cutoff == now - daysSinceCreation * DAY
        hit(c) == /\ chats[c].exists
                  /\ chats[c].status = "active"
                  /\ chats[c].createdAt < cutoff
    IN  /\ chats' = [c \in DOMAIN chats |->
                        IF hit(c) THEN [chats[c] EXCEPT !.status = "archived"]
                        ELSE chats[c]]
        /\ resp' = ChatResponse("archiveOldChats", 0, 200, "",
                      Data(0, 0, {}, <<>>,
                           Cardinality({ c \in DOMAIN chats : hit(c) })))
        /\ UNCHANGED <<users, nextUserId, now, ticks, issued, streak,
                       pendingReg, resetIssued, nextReset, threads>>

----------------------------------------------------------------------------
(* ChatService.addPrompt / updatePrompt / deletePrompt *)

MsgPromptNotFound == "Prompt not found"
MsgInvalidIds == "Invalid chat ID or prompt ID"

\* prompt data a client can send to addPrompt
PromptInputs == { [isActive |-> TRUE, background |-> "b1"],
                  [isActive |-> FALSE, background |-> "b2"] }

\* updateData of updatePrompt: keys names the members present
PromptUpdates ==
    { [keys |-> k, background |-> "b3", isActive |-> a] :
        k \in { {"background"}, {"isActive"}, {"_id", "userId"} },
        a \in BOOLEAN }

\* ChatService.addPrompt({ chatId, userId, promptData })
AddPrompt(chatId, userId, promptData) ==
    /\ IF getChatById(chatId, userId) # 200
       THEN /\ resp' = chatError("addPrompt", chatId, userId)
            /\ UNCHANGED chats
       ELSE /\ Len(chats[chatId].prompts) < MaxPrompts
            /\ chats' = [chats EXCEPT ![chatId] = addPrompt(@, promptData)]
            /\ resp' = ChatResponse("addPrompt", userId, 201,
                                    "Prompt added successfully",
                         Data(chatId, Len(chats[chatId].prompts) + 1, {},
                              <<>>, 0))
    /\ UNCHANGED <<users, nextUserId, now, ticks, issued, streak, pendingReg,
                   resetIssued, nextReset, threads>>

\* the error updatePrompt and deletePrompt raise before they look at the
\* prompt: malformed ids, then the owned-chat lookup
promptChatError(op, chatId, promptId, userId) ==
    [ (IF chatId = MalformedChatId \/ promptId = 0
       THEN ChatResponse(op, 0, 400, MsgInvalidIds, NoData)
       ELSE ChatResponse(op, 0, 404, MsgChatNotFound, NoData))
      EXCEPT !.req = [NoRequest EXCEPT !.chatId = chatId,
                                       !.userId = userId] ]

\* ChatService.getPromptById({ chatId, promptId, userId })
GetPromptById(chatId, promptId, userId) ==
    /\ resp' =
         IF \/ chatId = MalformedChatId
            \/ promptId = 0
            \/ findOwnedChat(chatId, userId) = {}
         THEN promptChatError("getPromptById", chatId, promptId, userId)
         ELSE IF promptId \notin DOMAIN chats[chatId].prompts
                 \/ ~chats[chatId].prompts[promptId].isActive
         THEN ChatResponse("getPromptById", userId, 404, MsgPromptNotFound,
                           NoData)
         ELSE ChatResponse("getPromptById", userId, 200,
                           "Prompt retrieved successfully",
                           Data(chatId, promptId, {}, <<>>, 0))
    /\ UNCHANGED <<users, nextUserId, now, ticks, issued, streak, pendingReg,
                   resetIssued, nextReset, chats, threads, history,
                   pendingAdd, flat, pendingLogin, pendingSend>>

\* an updatePrompt that does not look at isActive
UpdatePrompt_anyPrompt(chatId, promptId, userId, u) ==
    /\ IF \/ chatId = MalformedChatId
          \/ promptId = 0
          \/ findOwnedChat(chatId, userId) = {}
       THEN /\ resp' = promptChatError("updatePrompt", chatId, promptId,
                                       userId)
            /\ UNCHANGED chats
       ELSE LET chat == chats[chatId]
            IN  IF promptId \notin DOMAIN chat.prompts
                THEN /\ resp' = ChatResponse("updatePrompt", userId, 404,
                                             MsgPromptNotFound, NoData)
                     /\ UNCHANGED chats
                ELSE LET p == [chat.prompts[promptId] EXCEPT
                                 !.background = IF "background" \in u.keys
                                                THEN u.background ELSE @,
                                 !.isActive = IF "isActive" \in u.keys
                                              THEN u.isActive ELSE @]
                     IN  /\ chats' = [chats EXCEPT
                                         ![chatId].prompts[promptId] = p]
                         /\ resp' = ChatResponse("updatePrompt", userId, 200,
                                       "Prompt updated successfully",
                                       Data(chatId, promptId, {}, <<>>, 0))
    /\ UNCHANGED <<users, nextUserId, now, ticks, issued, streak, pendingReg,
                   resetIssued, nextReset, threads>>

\* ChatService.updatePrompt({ chatId, promptId, userId, updateData })
UpdatePrompt(chatId, promptId, userId, u) ==
    /\ IF \/ chatId = MalformedChatId
          \/ promptId = 0
          \/ findOwnedChat(chatId, userId) = {}
       THEN /\ resp' = promptChatError("updatePrompt", chatId, promptId,
                                       userId)
            /\ UNCHANGED chats
       ELSE LET chat == chats[chatId]
            IN  IF promptId \notin DOMAIN chat.prompts
                   \/ ~chat.prompts[promptId].isActive
                THEN /\ resp' = ChatResponse("updatePrompt", userId, 404,
                                             MsgPromptNotFound, NoData)
                     /\ UNCHANGED chats
                ELSE LET p == [chat.prompts[promptId] EXCEPT
                                 !.background = IF "background" \in u.keys
                                                THEN u.background ELSE @,
                                 !.isActive = IF "isActive" \in u.keys
                                              THEN u.isActive ELSE @]
                     IN  /\ chats' = [chats EXCEPT
                                         ![chatId].prompts[promptId] = p]
                         /\ resp' = ChatResponse("updatePrompt", userId, 200,
                                       "Prompt updated successfully",
                                       Data(chatId, promptId, {}, <<>>, 0))
    /\ UNCHANGED <<users, nextUserId, now, ticks, issued, streak, pendingReg,
                   resetIssued, nextReset, threads>>

\* a deactivation that takes the prompt out of the list
deactivatePrompt_remove(chat, promptId) ==
    [chat EXCEPT !.prompts =
        SubSeq(@, 1, promptId - 1) \o SubSeq(@, promptId + 1, Len(@))]

\* chat.deactivatePrompt(promptId) on a prompt the chat has
deactivatePrompt(chat, promptId) ==
    [chat EXCEPT !.prompts[promptId].isActive = FALSE]

\* a deletePrompt that treats an inactive prompt as missing
DeletePrompt_activeOnly(chatId, promptId, userId) ==
    /\ IF \/ chatId = MalformedChatId
          \/ promptId = 0
          \/ findOwnedChat(chatId, userId) = {}
       THEN /\ resp' = promptChatError("deletePrompt", chatId, promptId,
                                       userId)
            /\ UNCHANGED chats
       ELSE IF promptId \notin DOMAIN chats[chatId].prompts
               \/ ~chats[chatId].prompts[promptId].isActive
       THEN /\ resp' = ChatResponse("deletePrompt", userId, 404,
                                    MsgPromptNotFound, NoData)
            /\ UNCHANGED chats
       ELSE /\ chats' = [chats EXCEPT
                            ![chatId] = deactivatePrompt(@, promptId)]
            /\ resp' = ChatResponse("deletePrompt", userId, 200,
                                    "Prompt deleted successfully",
                                    Data(chatId, promptId, {}, <<>>, 0))
    /\ UNCHANGED <<users, nextUserId, now, ticks, issued, streak, pendingReg,
                   resetIssued, nextReset, threads>>

\* ChatService.deletePrompt({ chatId, promptId, userId })
DeletePrompt(chatId, promptId, userId) ==
    /\ IF \/ chatId = MalformedChatId
          \/ promptId = 0
          \/ findOwnedChat(chatId, userId) = {}
       THEN /\ resp' = promptChatError("deletePrompt", chatId, promptId,
                                       userId)
            /\ UNCHANGED chats
       ELSE IF promptId \notin DOMAIN chats[chatId].prompts
       THEN /\ resp' = ChatResponse("deletePrompt", userId, 404,
                                    MsgPromptNotFound, NoData)
            /\ UNCHANGED chats
       ELSE /\ chats' = [chats EXCEPT
                            ![chatId] = deactivatePrompt(@, promptId)]
            /\ resp' = ChatResponse("deletePrompt", userId, 200,
                                    "Prompt deleted successfully",
                                    Data(chatId, promptId, {}, <<>>, 0))
    /\ UNCHANGED <<users, nextUserId, now, ticks, issued, streak, pendingReg,
                   resetIssued, nextReset, threads>>

----------------------------------------------------------------------------
(* Message threads: soft delete *)

\* messageThread.softDelete() on a stored thread document
SoftDeleteThread(i) ==
    /\ i \in DOMAIN threads
    /\ threads' = [threads EXCEPT ![i].deleted = TRUE]
    /\ resp' = ChatResponse("softDelete", 0, 200, "",
                            Data(0, 0, {i}, <<>>, 0))
    /\ UNCHANGED <<users, nextUserId, now, ticks, issued, streak, pendingReg,
                   resetIssued, nextReset, chats>>

\* Message.clearMessagesForPrompt(chatId, promptId)
ClearMessagesForPrompt(chatId, promptId) ==
    /\ threads' = [i \in DOMAIN threads |->
                      IF /\ threads[i].chatId = chatId
                         /\ threads[i].promptId = promptId
                         /\ ~threads[i].deleted
                      THEN [threads[i] EXCEPT !.deleted = TRUE]
                      ELSE threads[i]]
    /\ resp' = ChatResponse("clearMessagesForPrompt", 0, 200, "", NoData)
    /\ UNCHANGED <<users, nextUserId, now, ticks, issued, streak, pendingReg,
                   resetIssued, nextReset, chats>>

----------------------------------------------------------------------------
(* chat.addMessage as its two awaited steps: calls of different requests
   interleave between the findOne and the save *)

\* await Message.findOne({ chatId, promptId, deleted: false }): the call
\* remembers the thread it found (0: none)
AddFind(chatId, promptId, role, content) ==
    /\ Len(pendingAdd) < MaxCalls
    /\ chatId \in DOMAIN chats
    /\ chats[chatId].exists
    /\ LET live == liveThreads(chatId, promptId)
       IN  pendingAdd' = Append(pendingAdd,
              [chatId |-> chatId, promptId |-> promptId, role |-> role,
               content |-> content,
               found |-> IF live = {} THEN 0
                         ELSE CHOOSE j \in live : \A k \in live : j <= k,
               pc |-> "found"])
    /\ UNCHANGED <<users, nextUserId, now, ticks, resp, issued, streak,
                   pendingReg, resetIssued, nextReset, chats, threads,
                   history, elsewhere>>

\* await messageThread.save() after the push (the new entry is sent as a
\* $push on the stored document), or await newMessageThread.save() (an
\* insert) when findOne had found nothing
saveThread(call) ==
    IF call.found # 0
    THEN [threads EXCEPT ![call.found].messages =
             Append(@, newEntry(call.role, call.content))]
    ELSE Append(threads,
                [chatId |-> call.chatId, promptId |-> call.promptId,
                 userId |-> chats[call.chatId].userId,
                 messages |-> <<newEntry(call.role, call.content)>>,
                 deleted |-> FALSE])

\* the second step of the k-th call in flight
AddSave(k) ==
    /\ k \in DOMAIN pendingAdd
    /\ pendingAdd[k].pc = "found"
    /\ withinBounds(saveThread(pendingAdd[k]))
    /\ threads' = saveThread(pendingAdd[k])
    /\ pendingAdd' = [pendingAdd EXCEPT ![k].pc = "done"]
    /\ resp' = Failure("addMessage", chats[pendingAdd[k].chatId].userId,
                       FALSE, "", 201, "Message added successfully")
    /\ UNCHANGED <<users, nextUserId, now, ticks, issued, streak, pendingReg,
                   resetIssued, nextReset, chats, history, elsewhere>>

----------------------------------------------------------------------------
(* ChatService.sendMessage without promptId as its awaited steps: calls of
   different requests interleave between getChatById, chat.save() and
   chat.addMessage *)

\* the first active prompt of a chat document
firstActive(chat) ==
    CHOOSE i \in activePrompts(chat) : \A j \in activePrompts(chat) : i <= j

\* await this.getChatById({ chatId, userId }): the call keeps the chat
\* document it read; with an active prompt in it the prompt is resolved
\* at once, without one the call goes on to add the default prompt
SendFind(chatId, userId, payload) ==
    /\ IF getChatById(chatId, userId) # 200
       THEN /\ resp' = chatError("sendMessage", chatId, userId)
            /\ UNCHANGED pendingSend
       ELSE LET chat == chats[chatId]
                resolved == activePrompts(chat) # {}
            IN  /\ Len(pendingSend) < MaxCalls
                /\ pendingSend' = Append(pendingSend,
                       [chatId |-> chatId, userId |-> userId,
                        content |-> messageContent(payload),
                        chat |-> chat,
                        promptId |-> IF resolved THEN firstActive(chat)
                                     ELSE 0,
                        pc |-> IF resolved THEN "resolved" ELSE "read"])
                /\ UNCHANGED resp
    /\ UNCHANGED <<users, nextUserId, now, ticks, issued, streak, pendingReg,
                   resetIssued, nextReset, chats, threads, history,
                   pendingAdd, flat, pendingLogin>>

\* chat.addPrompt({ background: "General conversation", ... }) on the
\* document the call read and await chat.save(): the new sub-document is
\* sent as a $push on the stored prompts, and the call goes on with the
\* _id of the prompt it pushed
SendSave(k) ==
    /\ k \in DOMAIN pendingSend
    /\ pendingSend[k].pc = "read"
    /\ LET c == pendingSend[k].chatId
       IN  /\ Len(chats[c].prompts) < MaxPrompts
           /\ chats' = [chats EXCEPT ![c] = addPrompt(@, DefaultPrompt)]
           /\ pendingSend' = [pendingSend EXCEPT
                                 ![k].promptId = Len(chats[c].prompts) + 1,
                                 ![k].pc = "resolved"]
    /\ UNCHANGED <<users, nextUserId, now, ticks, resp, issued, streak,
                   pendingReg, resetIssued, nextReset, threads, history,
                   pendingAdd, flat, pendingLogin>>

\* await chat.addMessage(activePromptId, threadId, "user", messageContent,
\* { timestamp }) and the answer
SendAppend(k) ==
    /\ k \in DOMAIN pendingSend
    /\ pendingSend[k].pc = "resolved"
    /\ LET call == pendingSend[k]
           valid == validEntry("user", call.content)
           ts == IF valid
                 THEN chatAddMessage(call.chatId, call.promptId, "user",
                                     call.content)
                 ELSE threads
       IN  /\ withinBounds(ts)
           /\ threads' = ts
           /\ resp' = IF valid
                      THEN ChatResponse("sendMessage", call.userId, 200,
                             "Message sent successfully",
                             Data(call.chatId, call.promptId, {},
                                  <<newEntry("user", call.content)>>, 1))
                      ELSE ChatResponse("sendMessage", call.userId, 400,
                             "Validation Error", NoData)
    /\ pendingSend' = [pendingSend EXCEPT ![k].pc = "done"]
    /\ UNCHANGED <<users, nextUserId, now, ticks, issued, streak, pendingReg,
                   resetIssued, nextReset, chats, history, pendingAdd, flat,
                   pendingLogin>>

\* Chat.updateMany({ userId }, { status: "deleted" })
softDeleteChats(uid) ==
    [c \in DOMAIN chats |->
        IF chats[c].exists /\ chats[c].userId = uid
        THEN [chats[c] EXCEPT !.status = "deleted"] ELSE chats[c]]

\* Message.updateMany({ userId }, { deleted: true })
softDeleteThreads(uid) ==
    [i \in DOMAIN threads |->
        IF threads[i].userId = uid
        THEN [threads[i] EXCEPT !.deleted = TRUE] ELSE threads[i]]

\* User.findByIdAndDelete(userId)
removeUser(uid) == [i \in DOMAIN users \ {uid} |-> users[i]]

MsgDeleteFailed == "Failed to delete user profile"

\* the persistence call that throws, if any
Failures == {"none", "chats", "messages", "user"}

\* a deleteProfile that removes the user record first
DeleteProfile_userFirst(uid, failing) ==
    /\ IF uid \notin DOMAIN users
       THEN /\ resp' = Failure("deleteProfile", 0, FALSE, "", 404,
                               "User not found")
            /\ UNCHANGED <<users, chats, threads>>
       ELSE /\ users' = IF failing = "user" THEN users ELSE removeUser(uid)
            /\ chats' = IF failing \in {"user", "chats"}
                        THEN chats ELSE softDeleteChats(uid)
            /\ threads' = IF failing = "none"
                          THEN softDeleteThreads(uid) ELSE threads
            /\ resp' = IF failing = "none"
                       THEN Failure("deleteProfile", uid, FALSE, failing, 200,
                                    "Profile deleted successfully")
                       ELSE Failure("deleteProfile", uid, FALSE, failing, 500,
                                    MsgDeleteFailed)
    /\ UNCHANGED <<nextUserId, now, ticks, issued, streak, pendingReg,
                   resetIssued, nextReset>>

\* AuthService.deleteProfile
DeleteProfile(uid, failing) ==
    /\ IF uid \notin DOMAIN users
       THEN /\ resp' = Failure("deleteProfile", 0, FALSE, "", 404,
                               "User not found")
            /\ UNCHANGED <<users, chats, threads>>
       ELSE /\ chats' = IF failing = "chats"
                        THEN chats ELSE softDeleteChats(uid)
            /\ threads' = IF failing \in {"chats", "messages"}
                          THEN threads ELSE softDeleteThreads(uid)
            /\ users' = IF failing = "none" THEN removeUser(uid) ELSE users
            /\ resp' = IF failing = "none"
                       THEN Failure("deleteProfile", uid, FALSE, failing, 200,
                                    "Profile deleted successfully")
                       ELSE Failure("deleteProfile", uid, FALSE, failing, 500,
                                    MsgDeleteFailed)
    /\ UNCHANGED <<nextUserId, now, ticks, issued, streak, pendingReg,
                   resetIssued, nextReset>>

----------------------------------------------------------------------------
(* AuthService.googleAuth / AuthService.handleGoogleCallback *)

GoogleIds == {"g1", "g2"}
GoogleNames == {"n1", "n2"}
GooglePicture == "p1"

\* what Google's library hands back for an ID token or authorization code:
\* a rejected token, or the identity claims of the payload (email <<>> when
\* the payload carries none)
GoogleTickets ==
    [ valid : {FALSE}, sub : {"g1"}, email : {<<>>}, name : {"n1"},
      email_verified : {FALSE} ]
    \cup
    [ valid : {TRUE}, sub : GoogleIds, email : RawEmails \cup {<<>>},
      name : GoogleNames, email_verified : BOOLEAN ]

MsgCollision == "An account with this email already exists. Please sign in with your password."

\* User.findOne({ googleId })
findByGoogleId(g) == { id \in DOMAIN users : users[id].googleId = g }

\* the authProvider stored with a user document
authProviderOf(u) == u.authProvider

\* new User({ fullName, email, googleId, avatar, authProvider: "google",
\*            isVerified: true })
newGoogleUser(ticket) ==
    [ email              |-> normalizeEmail(ticket.email),
      password           |-> <<>>,
      refreshTokens      |-> <<>>,
      loginAttempts      |-> 0,
      lockUntil          |-> NoDate,
      resetPasswordToken |-> <<>>,
      resetPasswordExpire |-> NoDate,
      fullName           |-> ticket.name,
      avatar             |-> GooglePicture,
      isVerified         |-> TRUE,
      authProvider       |-> "google",
      googleId           |-> ticket.sub ]

\* the part the two entry points share, from `User.findOne({ googleId })`
\* to the returned token pair
oauthSignIn(op, ticket) ==
    LET byId == findByGoogleId(ticket.sub)
        byEmail == findByEmail(normalizeEmail(ticket.email))
    IN  IF byId = {}
        THEN IF \E id \in byEmail : authProviderOf(users[id]) = "local"
             THEN /\ resp' = Failure(op, 0, FALSE, "", 409, MsgCollision)
                  /\ UNCHANGED <<users, nextUserId, streak, issued>>
             ELSE IF byEmail # {}
             THEN \* save() meets the unique email index
                  /\ resp' = Failure(op, 0, FALSE, "", 409,
                                     "email already exists")
                  /\ UNCHANGED <<users, nextUserId, streak, issued>>
             ELSE LET id == nextUserId
                      u0 == newGoogleUser(ticket)
                      rt == generateRefreshToken(id, u0.email)
                      at == generateAccessToken(id, u0.email)
                  IN  /\ nextUserId <= MaxUsers
                      /\ users' = [i \in DOMAIN users \cup {id} |->
                                     IF i = id THEN addRefreshToken(u0, rt)
                                     ELSE users[i]]
                      /\ nextUserId' = nextUserId + 1
                      /\ streak' = [i \in DOMAIN streak \cup {id} |->
                                      IF i = id THEN 0 ELSE streak[i]]
                      /\ issued' = issued \cup {rt}
                      /\ resp' = SignedIn(op, id, FALSE, "", 200,
                                          "Google authentication successful",
                                          at, rt, addRefreshToken(u0, rt),
                                          REGISTER_HIDDEN)
        ELSE LET id == CHOOSE i \in byId : TRUE
                 u1 == [users[id] EXCEPT !.fullName = ticket.name,
                                         !.avatar = GooglePicture,
                                         !.isVerified = TRUE]
                 rt == generateRefreshToken(id, u1.email)
                 at == generateAccessToken(id, u1.email)
             IN  /\ users' = [users EXCEPT ![id] = addRefreshToken(u1, rt)]
                 /\ issued' = issued \cup {rt}
                 /\ resp' = SignedIn(op, id, FALSE, "", 200,
                                     "Google authentication successful",
                                     at, rt, addRefreshToken(u1, rt),
                                     REGISTER_HIDDEN)
                 /\ UNCHANGED <<nextUserId, streak>>

\* a sign-in that links to whatever account holds the email
GoogleAuth_noCollisionCheck(ticket) ==
    /\ IF ~ticket.valid
       THEN /\ resp' = Failure("googleAuth", 0, FALSE, "", 401,
                               "Invalid Google token")
            /\ UNCHANGED <<users, nextUserId, streak, issued>>
       ELSE IF ticket.email = <<>>
       THEN /\ resp' = Failure("googleAuth", 0, FALSE, "", 400,
                               "Email not provided by Google")
            /\ UNCHANGED <<users, nextUserId, streak, issued>>
       ELSE LET byEmail == findByEmail(normalizeEmail(ticket.email))
            IN  IF findByGoogleId(ticket.sub) = {} /\ byEmail # {}
                THEN LET id == CHOOSE i \in byEmail : TRUE
                         u1 == [users[id] EXCEPT !.googleId = ticket.sub]
                         rt == generateRefreshToken(id, u1.email)
                     IN  /\ users' = [users EXCEPT ![id] =
                                         addRefreshToken(u1, rt)]
                         /\ issued' = issued \cup {rt}
                         /\ resp' = SignedIn("googleAuth", id, FALSE, "", 200,
                                        "Google authentication successful",
                                        generateAccessToken(id, u1.email),
                                        rt, addRefreshToken(u1, rt),
                                        REGISTER_HIDDEN)
                         /\ UNCHANGED <<nextUserId, streak>>
                ELSE oauthSignIn("googleAuth", ticket)
    /\ UNCHANGED <<now, ticks, pendingReg, resetIssued, nextReset,
                   chats, threads>>

\* AuthService.googleAuth(googleIdToken)
GoogleAuth(ticket) ==
    /\ IF ~ticket.valid
       THEN /\ resp' = Failure("googleAuth", 0, FALSE, "", 401,
                               "Invalid Google token")
            /\ UNCHANGED <<users, nextUserId, streak, issued>>
       ELSE IF ticket.email = <<>>
       THEN /\ resp' = Failure("googleAuth", 0, FALSE, "", 400,
                               "Email not provided by Google")
            /\ UNCHANGED <<users, nextUserId, streak, issued>>
       ELSE oauthSignIn("googleAuth", ticket)
    /\ UNCHANGED <<now, ticks, pendingReg, resetIssued, nextReset,
                   chats, threads>>

\* AuthService.handleGoogleCallback(code)
HandleGoogleCallback(ticket) ==
    /\ IF ~ticket.valid
       THEN /\ resp' = Failure("googleCallback", 0, FALSE, "", 401,
                               "Invalid or expired authorization code")
            /\ UNCHANGED <<users, nextUserId, streak, issued>>
       ELSE IF ticket.email = <<>>
       THEN /\ resp' = Failure("googleCallback", 0, FALSE, "", 400,
                               "Email not provided by Google")
            /\ UNCHANGED <<users, nextUserId, streak, issued>>
       ELSE IF ~ticket.email_verified
       THEN /\ resp' = Failure("googleCallback", 0, FALSE, "", 400,
                               "Google email is not verified")
            /\ UNCHANGED <<users, nextUserId, streak, issued>>
       ELSE oauthSignIn("googleCallback", ticket)
    /\ UNCHANGED <<now, ticks, pendingReg, resetIssued, nextReset,
                   chats, threads>>

----------------------------------------------------------------------------
(* The flat-message revision: messages embedded in the Chat document
   (chatSchema with messages: [messageSchema]) and the ChatService built on
   it, whose sendMessage asks Gemini for a reply.  The title the pre-save
   hook derives from the first user message is left out. *)

\* roles of the embedded messageSchema
FLAT_ROLES == {"user", "assistant", "system"}

\* settings.maxMessages as a request can carry it: 0 when it carries none
Limits == 0..MaxLimit

\* metadata.tokenCount as a request can carry it: 0 when it carries none
TokenCounts == {0, 7}

\* a message sub-document as messageSchema stores it
flatEntry(role, content, tokenCount, ts) ==
    [role |-> role, content |-> trim(content), timestamp |-> ts,
     tokenCount |-> tokenCount]

\* new Chat({ userId, title, settings }) of the flat revision
newFlatChat(uid, maxMessages) ==
    [ userId     |-> uid,
      settings   |-> [maxMessages |-> IF maxMessages = 0 THEN 100
                                      ELSE maxMessages],
      messages   |-> <<>>,
      statistics |-> [totalMessages |-> 0, totalTokens |-> 0] ]

\* messages.filter(msg => msg.role !== "system")
RECURSIVE nonSystemMessages(_)
nonSystemMessages(ms) ==
    IF ms = <<>> THEN <<>>
    ELSE IF Head(ms).role # "system"
         THEN <<Head(ms)>> \o nonSystemMessages(Tail(ms))
         ELSE nonSystemMessages(Tail(ms))

\* messages.findIndex(msg => msg.role !== "system"), 0 for -1
oldestIndex(ms) ==
    IF \E i \in DOMAIN ms : ms[i].role # "system"
    THEN CHOOSE i \in DOMAIN ms :
            /\ ms[i].role # "system"
            /\ \A j \in DOMAIN ms : ms[j].role # "system" => i <= j
    ELSE 0

\* messages.splice(i, 1)
splice(ms, i) == SubSeq(ms, 1, i - 1) \o SubSeq(ms, i + 1, Len(ms))

\* an addMessage that makes room by dropping the oldest message of any role
flatAddMessage_dropFirst(chat, role, content, tokenCount, ts) ==
    LET ms == chat.messages
        kept == IF /\ Len(ms) >= chat.settings.maxMessages
                   /\ Len(nonSystemMessages(ms)) >= chat.settings.maxMessages
                THEN splice(ms, 1)
                ELSE ms
    IN  [chat EXCEPT !.messages =
            Append(kept, flatEntry(role, content, tokenCount, ts))]

\* chatSchema.methods.addMessage(role, content, metadata) of the flat
\* revision
flatAddMessage(chat, role, content, tokenCount, ts) ==
    LET ms == chat.messages
        kept == IF /\ Len(ms) >= chat.settings.maxMessages
                   /\ Len(nonSystemMessages(ms)) >= chat.settings.maxMessages
                   /\ oldestIndex(ms) # 0
                THEN splice(ms, oldestIndex(ms))
                ELSE ms
    IN  [chat EXCEPT !.messages =
            Append(kept, flatEntry(role, content, tokenCount, ts))]

\* validation on save: role in the enum, content required after the trim,
\* maxMessages between 1 and 500
validFlatChat(chat) ==
    /\ chat.settings.maxMessages >= 1
    /\ chat.settings.maxMessages <= 500
    /\ \A i \in DOMAIN chat.messages :
          /\ chat.messages[i].role \in FLAT_ROLES
          /\ chat.messages[i].content # <<>>
          /\ chat.messages[i].tokenCount >= 0

\* chatSchema.pre("save"): the cached statistics follow the messages
preSave(chat) ==
    [chat EXCEPT !.statistics =
        [totalMessages |-> Len(chat.messages),
         totalTokens |-> totalTokens(chat.messages)]]

\* ChatService.getChatById of the flat revision
getFlatChatById(chatId, userId) ==
    IF chatId = MalformedChatId THEN 400
    ELSE IF chatId \in DOMAIN flat /\ flat[chatId].userId = userId THEN 200
    ELSE 404

flatChatError(op, chatId, userId) ==
    [ (IF getFlatChatById(chatId, userId) = 400
       THEN ChatResponse(op, 0, 400, MsgInvalidChatId, NoData)
       ELSE ChatResponse(op, 0, 404, MsgChatNotFound, NoData))
      EXCEPT !.req = [NoRequest EXCEPT !.chatId = chatId,
                                       !.userId = userId] ]

\* the exploration keeps a chat's message list short
flatWithinBounds(chat) == Len(chat.messages) <= MaxFlat

\* ChatService.createChat of the flat revision
CreateFlatChat(uid, maxMessages) ==
    /\ IF uid \notin DOMAIN users
       THEN /\ resp' = Failure("createChat", 0, FALSE, "", 404,
                               "User not found")
            /\ UNCHANGED flat
       ELSE /\ Len(flat) < MaxChats
            /\ flat' = Append(flat, newFlatChat(uid, maxMessages))
            /\ resp' = Failure("createChat", uid, FALSE, "", 201,
                               "Chat created successfully")
    /\ UNCHANGED <<users, nextUserId, now, ticks, issued, streak, pendingReg,
                   resetIssued, nextReset, chats, threads, history,
                   pendingAdd, pendingLogin, pendingSend>>

\* how a chat stands to its limit when a request reaches it: "full" when it
\* holds settings.maxMessages messages that are not system messages
limitState(chat) ==
    IF Len(nonSystemMessages(chat.messages)) >= chat.settings.maxMessages
    THEN "full" ELSE "room"

\* ChatService.addMessage of the flat revision
FlatAddMessage(chatId, userId, role, content, tokenCount) ==
    /\ IF role \notin FLAT_ROLES
       THEN /\ resp' = ChatResponse("addMessage", 0, 400,
                                    "Invalid message role", NoData)
            /\ UNCHANGED flat
       ELSE IF getFlatChatById(chatId, userId) # 200
       THEN /\ resp' = flatChatError("addMessage", chatId, userId)
            /\ UNCHANGED flat
       ELSE LET chat == flatAddMessage(flat[chatId], role, content,
                                       tokenCount, now)
            IN  /\ flatWithinBounds(chat)
                /\ IF validFlatChat(chat)
                   THEN /\ flat' = [flat EXCEPT ![chatId] = preSave(chat)]
                        /\ resp' = [ChatResponse("addMessage", userId, 201,
                                       "Message added successfully",
                                       Data(chatId, 0, {},
                                            <<chat.messages[
                                                Len(chat.messages)]>>, 1))
                                    EXCEPT !.req.chatId = chatId,
                                           !.pre = limitState(flat[chatId])]
                   ELSE /\ UNCHANGED flat
                        /\ resp' = ChatResponse("addMessage", userId, 400,
                                                "Validation Error", NoData)
    /\ UNCHANGED <<users, nextUserId, now, ticks, issued, streak, pendingReg,
                   resetIssued, nextReset, chats, threads, history,
                   pendingAdd, pendingLogin, pendingSend>>

\* ChatService.updateChat of the flat revision, for settings.maxMessages
UpdateFlatChat(chatId, userId, maxMessages) ==
    /\ IF getFlatChatById(chatId, userId) # 200
       THEN /\ resp' = flatChatError("updateChat", chatId, userId)
            /\ UNCHANGED flat
       ELSE LET chat == [flat[chatId] EXCEPT
                            !.settings.maxMessages = maxMessages]
            IN  IF validFlatChat(chat)
                THEN /\ flat' = [flat EXCEPT ![chatId] = chat]
                     /\ resp' = [ChatResponse("updateChat", userId, 200,
                                    "Chat updated successfully", NoData)
                                 EXCEPT !.req.chatId = chatId]
                ELSE /\ UNCHANGED flat
                     /\ resp' = ChatResponse("updateChat", userId, 400,
                                             "Validation Error", NoData)
    /\ UNCHANGED <<users, nextUserId, now, ticks, issued, streak, pendingReg,
                   resetIssued, nextReset, chats, threads, history,
                   pendingAdd, pendingLogin, pendingSend>>

\* the canned replies of generateMockResponse, by number, and the ends of
\* the range its random tokenCount is drawn from
MockResponses == { <<"m1">>, <<"m2">> }
MockTokenCounts == {20, 119}

\* the setTimeout of generateMockResponse, and the time a Gemini call takes
MockDelay == 100
GeminiDelay == 40

\* how the Gemini call of a request goes: no API key configured (genAI is
\* undefined), generateContent throws, or it answers
GeminiOutcomes == {"nokey", "throws", "ok"}

\* response texts of a Gemini call that answers
GeminiTexts == { <<"r">>, <<>> }

\* Math.ceil(n / 4)
ceilQuarter(n) == (n + 3) \div 4

\* ChatService.generateMockResponse: the results it can return
generateMockResponse ==
    { [content |-> c, tokenCount |-> t, delay |-> MockDelay, error |-> FALSE] :
        c \in MockResponses, t \in MockTokenCounts }

\* a generateAIResponse without the catch: the Gemini error reaches the
\* caller
generateAIResponse_rethrow(outcome) ==
    CASE outcome = "nokey" -> generateMockResponse
      [] outcome = "throws" ->
            { [content |-> <<>>, tokenCount |-> 0, delay |-> GeminiDelay,
               error |-> TRUE] }
      [] OTHER ->
            { [content |-> x, tokenCount |-> ceilQuarter(Len(x)),
               delay |-> GeminiDelay, error |-> FALSE] : x \in GeminiTexts }

\* ChatService.generateAIResponse: the results it can return
generateAIResponse(outcome) ==
    CASE outcome = "nokey" -> generateMockResponse
      [] outcome = "throws" -> generateMockResponse
      [] OTHER ->
            { [content |-> x, tokenCount |-> ceilQuarter(Len(x)),
               delay |-> GeminiDelay, error |-> FALSE] : x \in GeminiTexts }

\* user messages as they reach the flat revision's sendMessage
FlatTexts == { <<"h">>, <<" ">> }

\* ChatService.sendMessage of the flat revision: the user message, the AI
\* reply, one save; an error of generateAIResponse would leave nothing saved
SendMessageAI(chatId, userId, text, outcome) ==
    /\ IF getFlatChatById(chatId, userId) # 200
       THEN /\ resp' = flatChatError("sendMessage", chatId, userId)
            /\ UNCHANGED <<flat, now, ticks>>
       ELSE \E ai \in generateAIResponse(outcome) :
              LET withUser == flatAddMessage(flat[chatId], "user", text, 0,
                                             now)
                  later == now + ai.delay
                  withReply == flatAddMessage(withUser, "assistant",
                                              ai.content, ai.tokenCount,
                                              later)
                  userMsg == withUser.messages[Len(withUser.messages)]
                  aiMsg == withReply.messages[Len(withReply.messages)]
              IN  /\ ticks < MaxTicks
                  /\ ticks' = ticks + 1
                  /\ now' = later
                  /\ flatWithinBounds(withReply)
                  /\ IF ai.error
                     THEN /\ UNCHANGED flat
                          /\ resp' = [ChatResponse("sendMessage", userId,
                                         500, "Internal Server Error",
                                         NoData)
                                      EXCEPT !.pre = outcome,
                                             !.req.chatId = chatId]
                     ELSE IF validFlatChat(withReply)
                     THEN /\ flat' = [flat EXCEPT
                                         ![chatId] = preSave(withReply)]
                          /\ resp' = [ChatResponse("sendMessage", userId,
                                         200, "Message sent successfully",
                                         Data(chatId, 0, {},
                                              <<userMsg, aiMsg>>, 2))
                                      EXCEPT !.pre = outcome,
                                             !.req.chatId = chatId]
                     ELSE /\ UNCHANGED flat
                          /\ resp' = [ChatResponse("sendMessage", userId,
                                         400, "Validation Error", NoData)
                                      EXCEPT !.pre = outcome,
                                             !.req.chatId = chatId]
    /\ UNCHANGED <<users, nextUserId, issued, streak, pendingReg,
                   resetIssued, nextReset, chats, threads, history,
                   pendingAdd, pendingLogin, pendingSend>>

\* ChatService.getChatStatistics of the flat revision
flatStatistics(chat) ==
    [ totalMessages       |-> chat.statistics.totalMessages,
      totalTokens         |-> chat.statistics.totalTokens,
      user                |-> countRole(chat.messages, "user"),
      assistant           |-> countRole(chat.messages, "assistant"),
      system              |-> countRole(chat.messages, "system"),
      averageResponseTime |-> calculateAverageResponseTime(chat.messages) ]

GetFlatChatStatistics(chatId, userId) ==
    /\ resp' = IF getFlatChatById(chatId, userId) # 200
               THEN flatChatError("getChatStatistics", chatId, userId)
               ELSE [ChatResponse("getChatStatistics", userId, 200, "OK",
                        [Data(chatId, 0, {}, <<>>, 0) EXCEPT
                            !.stats = flatStatistics(flat[chatId])])
                     EXCEPT !.req.chatId = chatId]
    /\ UNCHANGED <<users, nextUserId, now, ticks, issued, streak, pendingReg,
                   resetIssued, nextReset, chats, threads, history,
                   pendingAdd, flat, pendingLogin, pendingSend>>

----------------------------------------------------------------------------
NextLock ==
    /\ \/ \E p \in Passwords : Register(<<"A">>, p)
       \/ \E e \in RawEmails, p \in Passwords : Login(e, p)
       \/ \E d \in {1, LOCK_TIME} : Tick(d)
    /\ UNCHANGED <<history, pendingAdd, elsewhere>>

SpecLock == Init /\ [][NextLock]_vars

UserIds == 1..MaxUsers

\* keeps the lockout counter small where lockout is not the subject
FewFailures == \A id \in DOMAIN users' : users'[id].loginAttempts <= MaxFailed

NextTokens ==
    /\ \/ \E p \in Passwords : Register(<<"A">>, p)
       \/ \E p \in Passwords : Login(<<"A">>, p) /\ FewFailures
       \/ \E id \in UserIds, t \in issued \cup {ForgedToken} : Logout(id, t)
       \/ \E id \in UserIds : LogoutAll(id)
       \/ \E id \in UserIds, c \in Passwords, n \in Passwords :
             ChangePassword(id, c, n)
       \/ GeneratePasswordResetToken(<<"A">>)
       \/ \E t \in resetIssued \cup {0}, n \in Passwords :
             ResetPassword(t, n)
       \/ Tick(1000)
    /\ UNCHANGED <<history, pendingAdd, elsewhere>>

SpecTokens == Init /\ [][NextTokens]_vars

\* refreshes against a token list that grows, shrinks and ages
NextRefresh ==
    /\ \/ Register(<<"A">>, "Passw0rd1")
       \/ \E e \in RawEmails : Login(e, "Passw0rd1")
       \/ \E t \in issued \cup {ForgedToken} : RefreshAccessToken(t)
       \/ \E id \in UserIds, t \in issued \cup {ForgedToken} : Logout(id, t)
       \/ \E id \in UserIds : DeleteProfile(id, "none")
       \/ \E d \in {1000, 1000 * JWT_REFRESH_EXPIRE} : Tick(d)
    /\ UNCHANGED <<history, pendingAdd, elsewhere>>

SpecRefresh == Init /\ [][NextRefresh]_vars

\* the session operations, with the history of revocations recorded
NextRevoke ==
    \/ /\ \/ \E p \in Passwords : Register(<<"A">>, p)
          \/ \E e \in RawEmails, p \in Passwords :
                Login(e, p) /\ FewFailures
          \/ \E t \in issued \cup {ForgedToken} : RefreshAccessToken(t)
          \/ \E id \in UserIds : LogoutAll(id)
          \/ \E d \in {1, 1000} : Tick(d)
       /\ UNCHANGED <<history, pendingAdd, elsewhere>>
    \/ \E id \in UserIds, t \in issued \cup {ForgedToken} :
          /\ Logout(id, t)
          /\ loggedOut' = IF id \in DOMAIN users /\ t.kind = "refresh"
                              /\ t.userId = id
                          THEN loggedOut \cup {t}
                          ELSE loggedOut
          /\ UNCHANGED <<superseded, pendingAdd, elsewhere>>
    \/ \E id \in UserIds, c \in Passwords, n \in Passwords :
          /\ ChangePassword(id, c, n)
          /\ superseded' = IF resp'.status = 200
                           THEN superseded \cup
                                  {t \in issued : t.userId = id}
                           ELSE superseded
          /\ UNCHANGED <<loggedOut, pendingAdd, elsewhere>>

SpecRevoke == Init /\ [][NextRevoke]_vars

\* the password-reset life cycle, on two accounts
NextReset ==
    /\ \/ \E e \in {<<"A">>, <<"b">>} : Register(e, "Passw0rd1")
       \/ Login(<<"a">>, "Passw0rd1") /\ FewFailures
       \/ \E e \in RawEmails : GeneratePasswordResetToken(e)
       \/ \E t \in resetIssued \cup {0}, n \in Passwords :
             ResetPassword(t, n)
       \/ \E d \in {1, RESET_EXPIRE} : Tick(d)
    /\ UNCHANGED <<history, pendingAdd, elsewhere>>

SpecReset == Init /\ [][NextReset]_vars

\* registrations that interleave between their check and their save
NextRegister ==
    /\ \/ \E e \in RawEmails, p \in Passwords : RegisterCheck(e, p)
       \/ \E q \in pendingReg : RegisterSave(q)
       \/ \E e \in RawEmails : Register(e, "Passw0rd1")
       \/ \E e \in RawEmails, p \in Passwords : Login(e, p) /\ FewFailures
    /\ UNCHANGED <<history, pendingAdd, elsewhere>>

SpecRegister == Init /\ [][NextRegister]_vars

\* keeps threads to their first entry where their contents are not the subject
ShortThreads == \A i \in DOMAIN threads' : Len(threads'[i].messages) = 1

\* accounts with chats and threads, and their deletion
NextDelete ==
    /\ \/ \E e \in {<<"A">>, <<"b">>} : Register(e, "Passw0rd1")
       \/ \E id \in UserIds : CreateChat(id)
       \/ \E c \in 1..MaxChats, q \in PromptIds :
             AddMessage(c, q, "user", <<"h">>) /\ ShortThreads
       \/ \E id \in UserIds, f \in Failures : DeleteProfile(id, f)
    /\ UNCHANGED <<history, pendingAdd, elsewhere>>

SpecDelete == Init /\ [][NextDelete]_vars

\* local registrations and Google sign-ins on the same emails
NextOAuth ==
    /\ \/ \E e \in RawEmails : Register(e, "Passw0rd1")
       \/ \E t \in GoogleTickets : GoogleAuth(t)
       \/ \E t \in GoogleTickets : HandleGoogleCallback(t)
    /\ UNCHANGED <<history, pendingAdd, elsewhere>>

SpecOAuth == Init /\ [][NextOAuth]_vars

\* scenario: the users open one chat each, in the order they registered
OneChatEach == \A c \in DOMAIN chats' : chats'[c].userId = c

\* chat ids the callers of the scenario try: the malformed one, those of
\* the stored chats and one that no chat has
KnownChatIds == 0..(Len(chats) + 1)

\* two users, one chat each, and every operation built on getChatById asked
\* by either user for every chat id
NextAccess ==
    /\ \/ Register(<<"A">>, "Passw0rd1")
       \/ Register(<<"b">>, "Passw0rd1") /\ DOMAIN users # {}
       \/ \E id \in UserIds : CreateChat(id) /\ OneChatEach
       \/ \E op \in ReadOps, c \in KnownChatIds, u \in DOMAIN users :
             ReadChat(op, c, u, 0)
       \/ \E c \in KnownChatIds, u \in DOMAIN users :
             SendMessage(c, u, AccessPayload, 0) /\ ShortThreads
       \/ \E c \in KnownChatIds, u \in DOMAIN users,
             r \in {"user", "bogus"} :
             ServiceAddMessage(c, u, r, <<"h">>, 1) /\ ShortThreads
       \/ \E c \in KnownChatIds, u \in DOMAIN users :
             UpdateChat(c, u, AccessUpdate)
       \/ \E c \in KnownChatIds, u \in DOMAIN users, p \in BOOLEAN :
             DeleteChat(c, u, p)
    /\ UNCHANGED <<history, pendingAdd, elsewhere>>

SpecAccess == Init /\ [][NextAccess]_vars

\* one user, their chat, prompts added by hand, and messages sent with and
\* without a prompt id
NextSend ==
    /\ \/ Register(<<"A">>, "Passw0rd1")
       \/ \E id \in DOMAIN users : CreateChat(id) /\ OneChatEach
       \/ \E c \in KnownChatIds, u \in DOMAIN users, d \in PromptInputs :
             AddPrompt(c, u, d)
       \/ \E c \in KnownChatIds, u \in DOMAIN users, q \in PromptIdInputs :
             SendMessage(c, u, AccessPayload, q)
    /\ UNCHANGED <<history, pendingAdd, elsewhere>>

SpecSend == Init /\ [][NextSend]_vars

\* scenario: within a thread only the newest entry differs from the
\* plain message
PlainHistory ==
    \A i \in DOMAIN threads' :
        \A k \in DOMAIN threads'[i].messages :
            k < Len(threads'[i].messages) =>
                threads'[i].messages[k].content = <<"h">>

\* scenario: a thread of plain messages only
PlainThread(i) ==
    \A k \in DOMAIN threads[i].messages :
        threads[i].messages[k].content = <<"h">>

\* prompt ids the caller of the scenario names: none, or a prompt of a chat
OwnPromptIds ==
    {0} \cup { q \in PromptIdInputs :
                 \E c \in DOMAIN chats : q \in DOMAIN chats[c].prompts }

\* one user, their chat, messages of every payload shape, and threads
\* soft-deleted in between
NextContent ==
    /\ \/ Register(<<"A">>, "Passw0rd1")
       \/ \E id \in DOMAIN users : CreateChat(id) /\ OneChatEach
       \/ \E c \in KnownChatIds, u \in DOMAIN users, p \in Payloads,
             q \in OwnPromptIds : SendMessage(c, u, p, q) /\ PlainHistory
       \/ \E i \in DOMAIN threads : SoftDeleteThread(i) /\ PlainThread(i)
    /\ UNCHANGED <<history, pendingAdd, elsewhere>>

SpecContent == Init /\ [][NextContent]_vars

\* prompt ids of stored threads
ThreadPromptIds == 1..MaxPrompts

\* one user, their chat, messages added to its prompts' threads one call
\* at a time, and threads soft-deleted in between
NextThreads ==
    /\ \/ Register(<<"A">>, "Passw0rd1")
       \/ \E id \in DOMAIN users : CreateChat(id) /\ OneChatEach
       \/ \E c \in DOMAIN chats, q \in ThreadPromptIds,
             r \in {"user", "bogus"} : AddMessage(c, q, r, <<"h">>)
       \/ \E i \in DOMAIN threads : SoftDeleteThread(i)
       \/ \E c \in DOMAIN chats, q \in ThreadPromptIds :
             ClearMessagesForPrompt(c, q)
    /\ UNCHANGED <<history, pendingAdd, elsewhere>>

SpecThreads == Init /\ [][NextThreads]_vars

\* two users, their chats, and addMessage calls whose steps interleave
NextConcurrent ==
    \/ /\ \/ \E e \in {<<"A">>, <<"b">>} : Register(e, "Passw0rd1")
          \/ \E id \in DOMAIN users : CreateChat(id) /\ OneChatEach
       /\ UNCHANGED <<history, pendingAdd, elsewhere>>
    \/ \E c \in DOMAIN chats, q \in ThreadPromptIds :
          AddFind(c, q, "user", <<"h">>)
    \/ \E k \in DOMAIN pendingAdd : AddSave(k)

SpecConcurrent == Init /\ [][NextConcurrent]_vars

\* one user, their chat, and the operations on its prompts
NextPrompts ==
    /\ \/ Register(<<"A">>, "Passw0rd1")
       \/ \E id \in DOMAIN users : CreateChat(id) /\ OneChatEach
       \/ \E c \in KnownChatIds, u \in DOMAIN users, d \in PromptInputs :
             AddPrompt(c, u, d)
       \/ \E c \in KnownChatIds, q \in PromptIdInputs, u \in DOMAIN users,
             d \in PromptUpdates : UpdatePrompt(c, q, u, d)
       \/ \E c \in KnownChatIds, q \in PromptIdInputs, u \in DOMAIN users :
             DeletePrompt(c, q, u)
       \/ \E c \in KnownChatIds, u \in DOMAIN users :
             SendMessage(c, u, AccessPayload, 0) /\ ShortThreads
    /\ UNCHANGED <<history, pendingAdd, elsewhere>>

SpecPrompts == Init /\ [][NextPrompts]_vars

\* the user who registered first
FirstUser == { u \in DOMAIN users : \A v \in DOMAIN users : u <= v }

\* two users with a chat each; they send messages, and the first asks for
\* every kind of update of every chat
NextUpdate ==
    /\ \/ Register(<<"A">>, "Passw0rd1")
       \/ Register(<<"b">>, "Passw0rd1") /\ DOMAIN users # {}
       \/ \E id \in UserIds : CreateChat(id) /\ OneChatEach
       \/ \E c \in KnownChatIds, u \in DOMAIN users :
             SendMessage(c, u, AccessPayload, 0) /\ ShortThreads
       \/ \E c \in KnownChatIds, u \in FirstUser, d \in UpdateInputs :
             UpdateChat(c, u, d)
    /\ UNCHANGED <<history, pendingAdd, elsewhere>>

SpecUpdate == Init /\ [][NextUpdate]_vars

\* update requests that carry a status only
StatusUpdates ==
    { [keys |-> {"status"}, skeys |-> {"autoArchive"}, status |-> st,
       values |-> UpdateValues] : st \in ChatStatuses \cup {"bogus"} }

\* the age, in days, the sweeps of the scenario are asked to archive from
\* (the default of 30 days in milliseconds exceeds the 32-bit integers of
\* the model checker)
SweepDays == 1

\* scenario: nobody registers again after deleting their profile
NeverRegistered(e) == \A t \in issued : t.email # normalizeEmail(e)

\* two users with a chat each, and everything that writes a chat's status
NextStatus ==
    /\ \/ Register(<<"A">>, "Passw0rd1") /\ NeverRegistered(<<"A">>)
       \/ Register(<<"b">>, "Passw0rd1") /\ NeverRegistered(<<"b">>)
                                         /\ ~NeverRegistered(<<"A">>)
       \/ \E id \in DOMAIN users : CreateChat(id) /\ OneChatEach
       \/ \E c \in KnownChatIds, u \in DOMAIN users, d \in StatusUpdates :
             UpdateChat(c, u, d)
       \/ \E c \in KnownChatIds, u \in DOMAIN users, p \in BOOLEAN :
             DeleteChat(c, u, p)
       \/ ArchiveOldChats(SweepDays)
       \/ \E id \in DOMAIN users : DeleteProfile(id, "none")
       \/ Tick((SweepDays + 1) * DAY) /\ ticks = 0
    /\ UNCHANGED <<history, pendingAdd, elsewhere>>

SpecStatus == Init /\ [][NextStatus]_vars

\* scenario: one chat of the flat revision
OneFlatChat == Len(flat') <= 1

\* one user of the flat revision, their chat, messages of every role added
\* by hand and sent with an AI reply at different times, and the statistics
\* read in between
NextStats ==
    \/ /\ \/ Register(<<"A">>, "Passw0rd1")
          \/ Tick(50)
       /\ UNCHANGED <<history, pendingAdd, elsewhere>>
    \/ \E u \in DOMAIN users : CreateFlatChat(u, 0) /\ OneFlatChat
    \/ \E c \in DOMAIN flat, u \in DOMAIN users, r \in FLAT_ROLES :
          FlatAddMessage(c, u, r, <<"h">>, 0)
    \/ \E c \in DOMAIN flat, u \in DOMAIN users :
          SendMessageAI(c, u, <<"h">>, "nokey")
    \/ \E c \in 0..(Len(flat) + 1), u \in DOMAIN users :
          GetFlatChatStatistics(c, u)

SpecStats == Init /\ [][NextStats]_vars

\* one user, their chat, entries of several roles added to its threads,
\* threads soft-deleted, and the statistics read in between
NextStatistics ==
    /\ \/ Register(<<"A">>, "Passw0rd1")
       \/ \E id \in DOMAIN users : CreateChat(id) /\ OneChatEach
       \/ \E c \in DOMAIN chats, u \in DOMAIN users, r \in FLAT_ROLES,
             q \in ThreadPromptIds : ServiceAddMessage(c, u, r, <<"h">>, q)
       \/ \E i \in DOMAIN threads : SoftDeleteThread(i)
       \/ \E c \in KnownChatIds, u \in DOMAIN users :
             ReadChat("getChatStatistics", c, u, 0)
    /\ UNCHANGED <<history, pendingAdd, elsewhere>>

SpecStatistics == Init /\ [][NextStatistics]_vars

\* one user of the flat revision, their chat with every limit, messages
\* sent with every outcome of the Gemini call, system messages added by
\* hand and the limit changed in between
NextReply ==
    \/ /\ Register(<<"A">>, "Passw0rd1")
       /\ UNCHANGED <<history, pendingAdd, elsewhere>>
    \/ \E u \in DOMAIN users, l \in Limits : CreateFlatChat(u, l) /\ OneFlatChat
    \/ \E c \in 0..(Len(flat) + 1), u \in DOMAIN users, t \in FlatTexts,
          o \in GeminiOutcomes : SendMessageAI(c, u, t, o)
    \/ \E c \in DOMAIN flat, u \in DOMAIN users, r \in {"system", "bogus"} :
          FlatAddMessage(c, u, r, <<"h">>, 0)
    \/ \E c \in 0..(Len(flat) + 1), u \in DOMAIN users, l \in Limits :
          UpdateFlatChat(c, u, l)

SpecReply == Init /\ [][NextReply]_vars

\* one user of the flat revision, their chat with every limit, messages of
\* every role added by hand and sent with a reply; the limit is never
\* changed
NextLimit ==
    \/ /\ Register(<<"A">>, "Passw0rd1")
       /\ UNCHANGED <<history, pendingAdd, elsewhere>>
    \/ \E u \in DOMAIN users, l \in Limits : CreateFlatChat(u, l) /\ OneFlatChat
    \/ \E c \in DOMAIN flat, u \in DOMAIN users, r \in FLAT_ROLES,
          t \in TokenCounts : FlatAddMessage(c, u, r, <<"h">>, t)
    \/ \E c \in DOMAIN flat, u \in DOMAIN users :
          SendMessageAI(c, u, <<"h">>, "nokey")

SpecLimit == Init /\ [][NextLimit]_vars

\* keeps the list of sessions short where sessions are not the subject
OneSession == \A id \in DOMAIN users' : Len(users'[id].refreshTokens) <= 1

\* one account, failed logins served one at a time and logins whose steps
\* interleave, while the lock runs out
NextLockRace ==
    /\ \/ /\ \/ Register(<<"A">>, "Passw0rd1")
             \/ Login(<<"A">>, "Passw0rd2")
             \/ Tick(LOCK_TIME)
          /\ UNCHANGED <<history, pendingAdd, elsewhere>>
       \/ \E e \in {<<"a">>, <<"b">>}, p \in Passwords : LoginFind(e, p)
       \/ \E k \in DOMAIN pendingLogin : LoginUpdate(k)
    /\ OneSession
    /\ ticks' <= 1

SpecLockRace == Init /\ [][NextLockRace]_vars

\* keeps the lists of sessions short where their length is not the subject
TwoSessions == \A id \in DOMAIN users' : Len(users'[id].refreshTokens) <= 2

\* sign-ins, refreshes and the routes that answer with the caller's user
\* object
NextBodies ==
    /\ \/ /\ \/ Register(<<"A">>, "Passw0rd1")
             \/ \E p \in Passwords : Login(<<"a">>, p) /\ FewFailures
             \/ \E t \in issued \cup {ForgedToken} : RefreshAccessToken(t)
             \/ \E t \in GoogleTickets :
                   GoogleAuth(t) /\ t.sub = "g1" /\ t.name = "n1"
                                 /\ t.email_verified
             \/ Tick(1000 * JWT_EXPIRE)
          /\ UNCHANGED <<history, pendingAdd, elsewhere>>
       \/ \E t \in BearerTokens : Me(t)
       \/ \E t \in BearerTokens : GetProfile(t)
    /\ TwoSessions

SpecBodies == Init /\ [][NextBodies]_vars

\* one user, their chat, and everything that writes the chat or reads a
\* prompt of it
NextDeactivate ==
    \/ /\ \/ Register(<<"A">>, "Passw0rd1")
          \/ \E id \in DOMAIN users : CreateChat(id) /\ OneChatEach
          \/ \E c \in DOMAIN chats, u \in DOMAIN users, d \in PromptInputs :
                AddPrompt(c, u, d)
          \/ \E c \in DOMAIN chats, q \in PromptIdInputs, u \in DOMAIN users,
                d \in PromptUpdates : UpdatePrompt(c, q, u, d)
          \/ \E c \in DOMAIN chats, q \in PromptIdInputs, u \in DOMAIN users :
                DeletePrompt(c, q, u)
          \/ \E c \in DOMAIN chats, u \in DOMAIN users, d \in UpdateInputs :
                UpdateChat(c, u, d) /\ d.keys = {"userId", "prompts"}
          \/ \E c \in DOMAIN chats, u \in DOMAIN users :
                SendMessage(c, u, AccessPayload, 0) /\ ShortThreads
       /\ UNCHANGED <<history, pendingAdd, elsewhere>>
    \/ \E c \in DOMAIN chats, q \in PromptIdInputs, u \in DOMAIN users :
          GetPromptById(c, q, u)

SpecDeactivate == Init /\ [][NextDeactivate]_vars

\* one user, their chat and its prompts, and messages sent or added with
\* and without a prompt id
NextOwnership ==
    /\ \/ Register(<<"A">>, "Passw0rd1")
       \/ \E id \in DOMAIN users : CreateChat(id) /\ OneChatEach
       \/ \E c \in DOMAIN chats, u \in DOMAIN users, d \in PromptInputs :
             AddPrompt(c, u, d)
       \/ \E c \in DOMAIN chats, u \in DOMAIN users, q \in PromptIdInputs :
             SendMessage(c, u, AccessPayload, q)
       \/ \E c \in DOMAIN chats, u \in DOMAIN users, q \in PromptIdInputs,
             r \in {"user", "assistant"} :
                ServiceAddMessage(c, u, r, <<"h">>, q)
    /\ UNCHANGED <<history, pendingAdd, elsewhere>>

SpecOwnership == Init /\ [][NextOwnership]_vars

\* accounts that sign in, are deleted and register again, and requests that
\* present the tokens they were given
NextGone ==
    /\ \/ /\ \/ Register(<<"A">>, "Passw0rd1")
             \/ Login(<<"a">>, "Passw0rd1")
             \/ \E t \in issued \cup {ForgedToken} : RefreshAccessToken(t)
             \/ \E id \in UserIds, f \in {"none", "messages"} :
                   DeleteProfile(id, f)
             \/ Tick(1000 * JWT_EXPIRE)
          /\ UNCHANGED <<history, pendingAdd, elsewhere>>
       \/ \E t \in BearerTokens : Me(t)
       \/ \E t \in BearerTokens : GetProfile(t)
    /\ TwoSessions

SpecGone == Init /\ [][NextGone]_vars

\* one user, their chat, and sendMessage calls without promptId whose
\* steps interleave
NextSendRace ==
    \/ /\ \/ Register(<<"A">>, "Passw0rd1")
          \/ \E id \in DOMAIN users : CreateChat(id) /\ OneChatEach
          \/ \E c \in DOMAIN chats, u \in DOMAIN users, d \in PromptInputs :
                AddPrompt(c, u, d)
          \/ \E c \in DOMAIN chats, q \in PromptIdInputs, u \in DOMAIN users :
                DeletePrompt(c, q, u)
       /\ UNCHANGED <<history, pendingAdd, elsewhere>>
    \/ \E c \in KnownChatIds, u \in DOMAIN users :
          SendFind(c, u, AccessPayload)
    \/ \E k \in DOMAIN pendingSend : SendSave(k)
    \/ \E k \in DOMAIN pendingSend : SendAppend(k)

SpecSendRace == Init /\ [][NextSendRace]_vars

----------------------------------------------------------------------------
(* Steps, as seen from the request/response record *)

\* a login request was served in this step
LoginStep == resp'.op = "login" /\ now' = now /\ (resp' # resp \/ users' # users)

\* a register or login call stored a new refresh token in this step
TokenAdded ==
    /\ resp'.op \in {"register", "login"}
    /\ resp'.status \in {200, 201}
    /\ now' = now
    /\ (resp' # resp \/ users' # users)

Last(s) == s[Len(s)]

----------------------------------------------------------------------------
(* Account lockout *)

\* C1: once 5 consecutive wrong-password logins have been made on an account,
\* every login served while now < lockUntil fails with the "temporarily
\* locked" 401 and issues no tokens, whatever password it supplies; and a
\* wrong-password login that brings the counter to MAX_LOGIN_ATTEMPTS leaves
\* the account locked.
C1_LockedLoginFails ==
    [][LoginStep /\ resp'.uid \in DOMAIN users =>
        LET id == resp'.uid
        IN  /\ ( /\ streak[id] >= MAX_LOGIN_ATTEMPTS
                 /\ users[id].lockUntil # NoDate
                 /\ now < users[id].lockUntil )
               => /\ resp'.status = 401
                  /\ resp'.message = MsgLocked
                  /\ resp'.accessToken = NoToken
                  /\ resp'.refreshToken = NoToken
                  /\ users'[id].refreshTokens = users[id].refreshTokens
                  /\ issued' = issued
            /\ ( /\ ~resp'.pwOk
                 /\ users'[id].loginAttempts >= MAX_LOGIN_ATTEMPTS )
               => /\ users'[id].lockUntil # NoDate
                  /\ users'[id].lockUntil > now
    ]_vars

\* a login with the correct password was refused as locked after a streak of 5
C1_Witness ==
    /\ resp.op = "login"
    /\ resp.pwOk
    /\ resp.message = MsgLocked
    /\ resp.uid \in DOMAIN streak
    /\ streak[resp.uid] >= MAX_LOGIN_ATTEMPTS

----------------------------------------------------------------------------
(* Refresh tokens *)

InOrderOfIssue(s) == \A i, j \in DOMAIN s : i < j => s[i].iat <= s[j].iat

\* C3: a user's refreshTokens list never holds more than 5 entries and is
\* kept in order of issue; a register or login that stores a token appends
\* it at the end, and when the list already held 5 the oldest entry (the
\* head) is the one dropped.
C3_AtMostFiveMostRecent ==
    [][/\ \A id \in DOMAIN users' :
            /\ Len(users'[id].refreshTokens) <= 5
            /\ InOrderOfIssue(users'[id].refreshTokens)
       /\ TokenAdded =>
            LET id == resp'.uid
                old == IF id \in DOMAIN users
                       THEN users[id].refreshTokens ELSE <<>>
            IN  users'[id].refreshTokens =
                  IF Len(old) >= 5
                  THEN Append(Tail(old), resp'.refreshToken)
                  ELSE Append(old, resp'.refreshToken)
    ]_vars

\* a login stored a token in a full list from which an older token is gone
C3_Witness ==
    /\ resp.op = "login"
    /\ resp.status = 200
    /\ resp.uid \in DOMAIN users
    /\ Len(users[resp.uid].refreshTokens) = 5
    /\ Last(users[resp.uid].refreshTokens) = resp.refreshToken
    /\ \E t \in issued : /\ t.userId = resp.uid
                         /\ t.iat < users[resp.uid].refreshTokens[1].iat

\* C4 (as claimed): once logout(userId, t) has completed for a refresh token
\* t of that user, every later refreshAccessToken(t) fails with 401 and
\* returns no access token.
C4_LoggedOutTokenStaysRevoked ==
    [][\A t \in loggedOut :
          RefreshAccessToken(t) =>
             resp'.status = 401 /\ resp'.accessToken = NoToken
    ]_vars

\* C5 (as claimed): after a successful changePassword the list is empty and
\* refreshAccessToken fails with 401 for every refresh token issued to the
\* user before the change; a changePassword with a wrong current password
\* fails with 401 and changes neither the password nor the token list.
C5_ChangePasswordRevokesAll ==
    [][/\ \A t \in superseded :
            RefreshAccessToken(t) =>
               resp'.status = 401 /\ resp'.accessToken = NoToken
       /\ \A id \in UserIds, c \in Passwords, n \in Passwords :
            ChangePassword(id, c, n) /\ id \in DOMAIN users =>
               IF users[id].password = bcryptHash(c)
               THEN resp'.status = 200 /\ users'[id].refreshTokens = <<>>
               ELSE resp'.status = 401 /\ users' = users
    ]_vars

\* C6: a step that serves refreshAccessToken leaves every user document as it
\* was (the refresh-token lists included), returns no refresh token, and
\* returns an access token exactly when it succeeds.
C6_RefreshLeavesTokensAlone ==
    [][resp'.op = "refresh" /\ now' = now =>
          /\ users' = users
          /\ resp'.refreshToken = NoToken
          /\ IF resp'.status = 200
             THEN resp'.accessToken.kind = "access"
             ELSE resp'.status = 401 /\ resp'.accessToken = NoToken
    ]_vars

\* a refresh succeeded for a user who holds several tokens
C6_Witness ==
    /\ resp.op = "refresh"
    /\ resp.status = 200
    /\ resp.uid \in DOMAIN users
    /\ Len(users[resp.uid].refreshTokens) >= 2

----------------------------------------------------------------------------
(* Password reset *)

\* C8 (as claimed): generatePasswordResetToken answers an email that belongs
\* to an account exactly as it answers an email that belongs to none: the
\* generic message and no payload.
C8_ForgotPasswordSameAnswer ==
    resp.op = "forgotPassword" =>
        /\ resp.status = 200
        /\ resp.message = MsgGeneric
        /\ resp.resetToken = 0

\* C9: resetPassword(token, newPassword) succeeds exactly when some user
\* stores the hash of token with resetPasswordExpire in the future; on
\* success that user gets the new password, both reset fields cleared and an
\* empty refresh-token list, no other user changes, and no user stores the
\* token's hash any more (a second call with the token is a 400); on failure
\* it answers 400 and no user document changes.
C9_ResetPasswordOnce ==
    [][\A t \in resetIssued \cup {0}, n \in Passwords :
          ResetPassword(t, n) =>
            LET match == { id \in DOMAIN users :
                             /\ users[id].resetPasswordToken = <<"sha256", t>>
                             /\ users[id].resetPasswordExpire > now }
            IN  IF match = {}
                THEN resp'.status = 400 /\ users' = users
                ELSE /\ resp'.status = 200
                     /\ resp'.uid \in match
                     /\ users'[resp'.uid] =
                          [users[resp'.uid] EXCEPT
                             !.password = <<"bcrypt", n>>,
                             !.resetPasswordToken = <<>>,
                             !.resetPasswordExpire = NoDate,
                             !.refreshTokens = <<>>]
                     /\ \A id \in DOMAIN users' :
                          /\ id # resp'.uid => users'[id] = users[id]
                          /\ users'[id].resetPasswordToken # <<"sha256", t>>
    ]_vars

\* a reset succeeded, and the same token was then refused
C9_Witness ==
    /\ resp.op = "resetPassword"
    /\ resp.status = 400
    /\ resetIssued # {}
    /\ \E id \in DOMAIN users :
          /\ users[id].password = <<"bcrypt", "Passw0rd2">>
          /\ users[id].resetPasswordToken = <<>>
          /\ users[id].refreshTokens = <<>>

----------------------------------------------------------------------------
(* Registration *)

SameIgnoringCase(e1, e2) ==
    /\ Len(e1) = Len(e2)
    /\ \A i \in DOMAIN e1 : LowerChar(e1[i]) = LowerChar(e2[i])

Taken(e) == \E id \in DOMAIN users : SameIgnoringCase(users[id].email, e)

RegisterRefused ==
    /\ resp'.status = 409
    /\ resp'.accessToken = NoToken
    /\ resp'.refreshToken = NoToken
    /\ users' = users
    /\ issued' = issued

\* C7: a register call whose email equals, ignoring case, the email of a
\* registered user is answered 409 Conflict, creates no user and issues no
\* tokens, whether the user was there at the call's existence check or only
\* by the time of its save (a concurrent registration won the race); no two
\* user records ever share an email ignoring case.
C7_DuplicateEmailConflict ==
    [][/\ \A e \in RawEmails, p \in Passwords :
            /\ (Register(e, p) /\ Taken(e)) => RegisterRefused
            /\ (RegisterCheck(e, p) /\ Taken(e)) => RegisterRefused
       /\ \A q \in pendingReg :
            (RegisterSave(q) /\ Taken(q.email)) => RegisterRefused
       /\ \A i, j \in DOMAIN users' :
            SameIgnoringCase(users'[i].email, users'[j].email) => i = j
    ]_vars

\* the save of a registration lost the race for its email
C7_Witness ==
    /\ resp.op = "register"
    /\ resp.status = 409
    /\ resp.message = "email already exists"
    /\ users # <<>>

----------------------------------------------------------------------------
(* Profile deletion *)

ChatsOf(uid) ==
    { c \in DOMAIN chats : chats[c].exists /\ chats[c].userId = uid }
ThreadsOf(uid) == { i \in DOMAIN threads : threads[i].userId = uid }

\* C10: deleteProfile(userId) for an existing user either succeeds, leaving
\* every chat of the user in status "deleted", every thread of the user with
\* deleted = TRUE and no user record, or fails with 500 leaving the user
\* record in place; the record is gone only if both soft deletes were
\* applied, and a failure of either update is a 500 with the record present.
C10_DeleteProfileCascade ==
    [][resp'.op = "deleteProfile" /\ resp'.uid \in DOMAIN users
       /\ (resp' # resp \/ users' # users \/ chats' # chats
           \/ threads' # threads) =>
          LET uid == resp'.uid
              cascaded ==
                /\ \A c \in ChatsOf(uid) : chats'[c].status = "deleted"
                /\ \A i \in ThreadsOf(uid) : threads'[i].deleted
          IN  /\ IF resp'.status = 200
                 THEN uid \notin DOMAIN users' /\ cascaded
                 ELSE resp'.status = 500 /\ users' = users
              /\ uid \notin DOMAIN users' => cascaded
              /\ resp'.pre \in {"chats", "messages"} =>
                    resp'.status = 500 /\ uid \in DOMAIN users'
              /\ \A c \in DOMAIN chats \ ChatsOf(uid) : chats'[c] = chats[c]
              /\ \A i \in DOMAIN threads \ ThreadsOf(uid) :
                    threads'[i] = threads[i]
    ]_vars

\* a user with a chat and a thread was deleted
C10_Witness ==
    /\ resp.op = "deleteProfile"
    /\ resp.status = 200
    /\ resp.uid \notin DOMAIN users
    /\ \E c \in DOMAIN chats :
          chats[c].userId = resp.uid /\ chats[c].status = "deleted"
    /\ \E i \in DOMAIN threads :
          threads[i].userId = resp.uid /\ threads[i].deleted

----------------------------------------------------------------------------
(* OAuth sign-in *)

\* the identity matches no user by provider id, and its email is that of a
\* local-provider account
LocalCollision(t) ==
    /\ t.valid
    /\ t.email # <<>>
    /\ \A id \in DOMAIN users : users[id].googleId # t.sub
    /\ \E id \in DOMAIN users :
          /\ SameIgnoringCase(users[id].email, t.email)
          /\ users[id].authProvider = "local"

OAuthRefused ==
    /\ resp'.status = 409
    /\ resp'.accessToken = NoToken
    /\ resp'.refreshToken = NoToken
    /\ users' = users
    /\ nextUserId' = nextUserId
    /\ issued' = issued

----------------------------------------------------------------------------
(* C12: a chat is reachable only by its owner *)

\* the chat id is well-formed and names a stored chat of somebody else
OthersChat(c, u) ==
    /\ c \in DOMAIN chats
    /\ chats[c].exists
    /\ chats[c].userId # u

\* the chat id is well-formed and names no stored chat
NoSuchChat(c) == c # MalformedChatId /\ (c \in DOMAIN chats => ~chats[c].exists)

\* some operation built on getChatById was asked by u for chat c
AskedThroughGetChatById(c, u) ==
    \/ resp'.op \in ReadOps /\ ReadChat(resp'.op, c, u, 0)
    \/ resp'.op = "sendMessage" /\ SendMessage(c, u, AccessPayload, 0)
    \/ resp'.op = "addMessage" /\ ServiceAddMessage(c, u, "user", <<"h">>, 1)
    \/ resp'.op = "updateChat" /\ UpdateChat(c, u, AccessUpdate)
    \/ resp'.op = "deleteChat" /\ \E p \in BOOLEAN : DeleteChat(c, u, p)

\* the envelope a client sees
envelope(r) == <<r.status, r.message, r.data>>

\* C12: every operation built on getChatById, asked by a user for a
\* well-formed id of a chat that is not theirs, answers 404 "Chat not
\* found" without data (the answer an id of no chat gets), and leaves every
\* chat and thread as it was; a successful answer is always about a chat
\* whose userId is the caller's
C12_OnlyOwnerReachesChat ==
    [][ \A c \in ChatIdInputs, u \in UserIds :
          AskedThroughGetChatById(c, u) =>
            /\ (OthersChat(c, u) \/ NoSuchChat(c)) =>
                   /\ envelope(resp') = <<404, "Chat not found", NoData>>
                   /\ chats' = chats
                   /\ threads' = threads
            /\ resp'.status \in {200, 201} =>
                   /\ chats[c].userId = u
                   /\ resp'.data.chatId = c
                   /\ resp'.data.threads \subseteq
                         { i \in DOMAIN threads : threads[i].chatId = c }
                   /\ \A d \in DOMAIN chats : d # c => chats'[d] = chats[d]
                   /\ \A i \in DOMAIN threads :
                         threads[i].chatId # c => threads'[i] = threads[i] ]_vars

\* a user was refused a stored chat of another user
C12_Witness ==
    /\ resp.status = 404
    /\ resp.message = "Chat not found"
    /\ resp.req.chatId \in DOMAIN chats
    /\ chats[resp.req.chatId].exists
    /\ chats[resp.req.chatId].userId # resp.req.userId
    /\ \E i \in DOMAIN threads : threads[i].chatId = resp.req.chatId

----------------------------------------------------------------------------
(* C13: the default prompt is created once *)

\* sendMessage without promptId was served for chat c and succeeded
SentWithoutPrompt(c) ==
    /\ resp'.op = "sendMessage"
    /\ resp'.status = 200
    /\ \E u \in UserIds : SendMessage(c, u, AccessPayload, 0)

\* the state a successful sendMessage without promptId leaves behind on a
\* chat that had no prompts: its answer and the one default prompt
AfterFirstSend(c) ==
    /\ resp.op = "sendMessage"
    /\ resp.status = 200
    /\ resp.data.chatId = c
    /\ Len(chats[c].prompts) = 1
    /\ chats[c].prompts[1].background = "General conversation"
    /\ chats[c].prompts[1].isActive
    /\ resp.data.promptId = 1

----------------------------------------------------------------------------
(* C14: what sendMessage stores *)

\* the message text of a payload as the claim reads it: the string itself,
\* or the object's text, content or message member, else its JSON string
messageText(p) ==
    CASE p.kind # "object" -> p.text
      [] p.kind = "object" /\ p.text # <<>> -> p.text
      [] p.kind = "object" /\ p.text = <<>> /\ p.content # <<>> -> p.content
      [] p.kind = "object" /\ p.text = <<>> /\ p.content = <<>>
            /\ p.message # <<>> -> p.message
      [] OTHER -> <<"{">> \o p.other \o <<"}">>

\* sendMessage was served for chat c with payload p and succeeded
Sent(c, p) ==
    /\ resp'.op = "sendMessage"
    /\ resp'.status = 200
    /\ \E u \in UserIds, q \in PromptIdInputs : SendMessage(c, u, p, q)

\* the live thread of (c, q) after the step is the one before it (none:
\* the empty thread) with exactly the entry e at its end, every other
\* thread is as it was, and e is what the call returned
StoredAtEnd(c, q, e) ==
    /\ resp'.data.entries = <<e>>
    /\ \E i \in DOMAIN threads' :
          /\ threads'[i].chatId = c
          /\ threads'[i].promptId = q
          /\ ~threads'[i].deleted
          /\ threads'[i].messages =
                Append(IF i \in DOMAIN threads THEN threads[i].messages
                       ELSE <<>>, e)
          /\ \A j \in DOMAIN threads' \ {i} :
                j \in DOMAIN threads /\ threads'[j] = threads[j]

----------------------------------------------------------------------------
(* C15: one live thread per (chat, prompt) *)

\* the stored threads of (c, q) that are not soft-deleted
Live(ts, c, q) ==
    { i \in DOMAIN ts :
        ts[i].chatId = c /\ ts[i].promptId = q /\ ~ts[i].deleted }

\* chat.addMessage(q, "user", "h") was served for chat c and succeeded
Added(c, q) ==
    /\ resp'.op = "addMessage"
    /\ resp'.status = 201
    /\ AddMessage(c, q, "user", <<"h">>)

\* all threads but the i-th are as they were
OthersKept(i) ==
    \A j \in DOMAIN threads : j # i => threads'[j] = threads[j]

\* C15: with calls run one at a time there is never more than one live
\* thread per (chat, prompt); the first message of a pair creates its
\* thread, later ones are appended to it, and a soft delete keeps the
\* thread's entries, after which the next message starts a new thread
C15_OneLiveThread ==
    [][ /\ \A c \in DOMAIN chats, q \in ThreadPromptIds :
             /\ Cardinality(Live(threads', c, q)) <= 1
             /\ Added(c, q) /\ Live(threads, c, q) = {} =>
                   /\ Len(threads') = Len(threads) + 1
                   /\ Live(threads', c, q) = {Len(threads')}
                   /\ Len(threads'[Len(threads')].messages) = 1
                   /\ OthersKept(Len(threads'))
             /\ Added(c, q) /\ Live(threads, c, q) # {} =>
                   /\ Len(threads') = Len(threads)
                   /\ Live(threads', c, q) = Live(threads, c, q)
                   /\ \A i \in Live(threads, c, q) :
                         /\ Len(threads'[i].messages) =
                               Len(threads[i].messages) + 1
                         /\ SubSeq(threads'[i].messages, 1,
                                   Len(threads[i].messages)) =
                               threads[i].messages
                         /\ OthersKept(i)
        /\ resp'.op \in {"softDelete", "clearMessagesForPrompt"} =>
             /\ Len(threads') = Len(threads)
             /\ \A i \in DOMAIN threads :
                   /\ threads'[i].messages = threads[i].messages
                   /\ threads[i].deleted => threads'[i].deleted ]_vars

\* a pair has a soft-deleted thread that kept its entries and a new live
\* thread started by the message that came after the delete
C15_Witness ==
    \E i, j \in DOMAIN threads :
        /\ i < j
        /\ threads[i].chatId = threads[j].chatId
        /\ threads[i].promptId = threads[j].promptId
        /\ threads[i].deleted
        /\ Len(threads[i].messages) = 2
        /\ ~threads[j].deleted
        /\ resp.op = "addMessage"
        /\ resp.status = 201

----------------------------------------------------------------------------
(* C16: concurrent appends to one (chat, prompt) *)

\* the calls for (c, q) that have completed
DoneCalls(c, q) ==
    { k \in DOMAIN pendingAdd :
        /\ pendingAdd[k].chatId = c
        /\ pendingAdd[k].promptId = q
        /\ pendingAdd[k].pc = "done" }

\* no call is between its findOne and its save
Quiescent == \A k \in DOMAIN pendingAdd : pendingAdd[k].pc = "done"

\* C16: once the concurrent appends to a (chat, prompt) have completed,
\* whatever the order of their findOne and save steps, the pair has a
\* single live thread and that thread holds one entry per append
C16_ConcurrentAppendsKept ==
    \A c \in DOMAIN chats, q \in ThreadPromptIds :
        Quiescent /\ DoneCalls(c, q) # {} =>
            /\ Cardinality(Live(threads, c, q)) = 1
            /\ \A i \in Live(threads, c, q) :
                  Len(threads[i].messages) = Cardinality(DoneCalls(c, q))

----------------------------------------------------------------------------
(* C17, C18: prompts are deactivated, never removed *)

\* deletePrompt was served for prompt q of chat c and succeeded
Deleted(c, q) ==
    /\ resp'.op = "deletePrompt"
    /\ resp'.status = 200
    /\ \E u \in UserIds : DeletePrompt(c, q, u)

\* C17: across addPrompt, updatePrompt, deletePrompt and sendMessage a
\* chat never has fewer prompts after a step than before it, and a
\* successful deletePrompt changes nothing but the isActive flag of its
\* target, which is false afterwards
C17_PromptsNeverRemoved ==
    [][ /\ \A c \in DOMAIN chats :
             Len(chats'[c].prompts) >= Len(chats[c].prompts)
        /\ \A c \in DOMAIN chats, q \in PromptIdInputs :
             Deleted(c, q) =>
               /\ q \in DOMAIN chats[c].prompts
               /\ chats' = [chats EXCEPT ![c].prompts[q].isActive = FALSE]
               /\ threads' = threads
               /\ users' = users ]_vars

\* an active prompt that had a thread was deactivated: the chat keeps both
\* its prompts and the thread
C17_Witness ==
    /\ resp.op = "deletePrompt"
    /\ resp.status = 200
    /\ Len(chats[resp.data.chatId].prompts) = 2
    /\ ~chats[resp.data.chatId].prompts[resp.data.promptId].isActive
    /\ chats[resp.data.chatId].prompts[resp.data.promptId].background =
          "General conversation"
    /\ \E i \in DOMAIN threads :
          /\ threads[i].chatId = resp.data.chatId
          /\ threads[i].promptId = resp.data.promptId

\* the state right after a successful deletePrompt of prompt q of chat c
JustDeleted(c, q) ==
    /\ resp.op = "deletePrompt"
    /\ resp.status = 200
    /\ resp.data.chatId = c
    /\ resp.data.promptId = q

\* C18: deletePrompt asked again for the prompt it has just deactivated
\* succeeds (it is not answered NotFound), leaves chats and threads as the
\* first call left them, and the prompt is inactive
C18_DeletePromptIdempotent ==
    [][ \A c \in DOMAIN chats, q \in PromptIdInputs, u \in UserIds :
          JustDeleted(c, q) /\ chats[c].userId = u
            /\ resp'.op = "deletePrompt" /\ DeletePrompt(c, q, u) =>
              /\ resp'.status = 200
              /\ envelope(resp') = envelope(resp)
              /\ chats' = chats
              /\ threads' = threads
              /\ ~chats'[c].prompts[q].isActive ]_vars

\* a prompt that was already inactive was deleted with success
C18_Witness ==
    /\ resp.op = "deletePrompt"
    /\ resp.status = 200
    /\ ~chats[resp.data.chatId].prompts[resp.data.promptId].isActive
    /\ chats[resp.data.chatId].prompts[resp.data.promptId].background = "b2"

----------------------------------------------------------------------------
(* C19: updateChat touches only its whitelist *)

\* updateChat was served for chat c
Updated(c) ==
    /\ resp'.op = "updateChat"
    /\ \E u \in UserIds, d \in UpdateInputs : UpdateChat(c, u, d)

\* C19: whatever keys the update request carries, updateChat leaves every
\* field of the addressed chat other than title, settings, tags, status and
\* initialPrompt as it was (userId and prompts among them), and leaves
\* every other chat, every message thread and every user unchanged
C19_UpdateChatWhitelist ==
    [][ \A c \in ChatIdInputs :
          Updated(c) =>
            /\ DOMAIN chats' = DOMAIN chats
            /\ \A d \in DOMAIN chats :
                  IF d = c
                  THEN \A f \in DOMAIN chats[d] \
                            {"title", "settings", "tags", "status",
                             "initialPrompt"} :
                          chats'[d][f] = chats[d][f]
                  ELSE chats'[d] = chats[d]
            /\ threads' = threads
            /\ users' = users ]_vars

\* an update that carried userId and prompts next to title and status was
\* applied to a chat that has a prompt: its title changed, its owner and
\* prompts did not
C19_Witness ==
    /\ resp.op = "updateChat"
    /\ resp.status = 200
    /\ {"userId", "prompts", "title"} \subseteq resp.req.keys
    /\ chats[resp.data.chatId].title = "t2"
    /\ chats[resp.data.chatId].userId = resp.uid
    /\ chats[resp.data.chatId].userId # UpdateValues.userId
    /\ chats[resp.data.chatId].prompts # UpdateValues.prompts

----------------------------------------------------------------------------
(* C20: the moves of a chat's status *)

----------------------------------------------------------------------------
(* Statistics of a chat *)

\* the positions of a user message directly followed by an assistant message
PairPositions(ms) ==
    { i \in 1..(Len(ms) - 1) :
        ms[i].role = "user" /\ ms[i + 1].role = "assistant" }

\* the sum of timestamp(next) - timestamp(m) over a set of positions
RECURSIVE DeltaSum(_, _)
DeltaSum(ms, P) ==
    IF P = {} THEN 0
    ELSE LET i == CHOOSE j \in P : TRUE
         IN  (ms[i + 1].timestamp - ms[i].timestamp)
               + DeltaSum(ms, P \ {i})

\* the statistics of chat c were read in this step
StatsRead(c) ==
    /\ resp'.op = "getChatStatistics"
    /\ resp'.status = 200
    /\ resp'.req.chatId = c
    /\ flat' = flat
    /\ now' = now
    /\ users' = users

\* the messages [user@0, assistant@100, user@150]
ExampleMessages(ms) ==
    /\ Len(ms) = 3
    /\ <<ms[1].role, ms[2].role, ms[3].role>> = <<"user", "assistant", "user">>
    /\ <<ms[1].timestamp, ms[2].timestamp, ms[3].timestamp>> = <<0, 100, 150>>

\* C21: the averageResponseTime a statistics read returns is the mean of
\* timestamp(next) - timestamp(m) over exactly the positions where m has
\* role user and the message right after it has role assistant; a user
\* message followed by anything else, or by nothing, contributes nothing;
\* without such a pair the result is 0; [user@0, assistant@100, user@150]
\* gives 100.
C21_AverageResponseTime ==
    [][ \A c \in DOMAIN flat :
          StatsRead(c) =>
            LET ms == flat[c].messages
                P == PairPositions(ms)
                avg == resp'.data.stats.averageResponseTime
            IN  /\ P = {} => avg = quotient(0, 1)
                /\ P # {} =>
                      sameNumber(avg, quotient(DeltaSum(ms, P),
                                               Cardinality(P)))
                /\ ExampleMessages(ms) => sameNumber(avg, quotient(100, 1))
      ]_vars

\* the statistics of the example were read: one pair, the trailing user
\* message ignored
C21_Witness ==
    /\ resp.op = "getChatStatistics"
    /\ resp.status = 200
    /\ resp.req.chatId \in DOMAIN flat
    /\ ExampleMessages(flat[resp.req.chatId].messages)
    /\ resp.data.stats.averageResponseTime = quotient(100, 1)

\* the number of entries with a role in roles that the live threads of
\* chat c hold, counted over the set ts of threads
RECURSIVE EntryCount(_, _)
EntryCount(ts, roles) ==
    IF ts = {} THEN 0
    ELSE LET i == CHOOSE j \in ts : TRUE
         IN  Cardinality({ k \in DOMAIN threads[i].messages :
                             threads[i].messages[k].role \in roles })
               + EntryCount(ts \ {i}, roles)

\* the statistics of chat c of the separate-collection revision were read
\* in this step
StatisticsRead(c) ==
    /\ resp'.op = "getChatStatistics"
    /\ resp'.status = 200
    /\ resp'.data.chatId = c
    /\ threads' = threads
    /\ chats' = chats
    /\ users' = users

\* C22: getChatStatistics reports totalMessages as the number of entries
\* stored in the chat's non-deleted threads, messagesByRole.user /
\* assistant / system as the number of those entries with that role, and
\* totalTokens as the sum of their metadata.tokenCount (entries of this
\* revision store none: 0), all computed from what is stored at the call.
C22_StatisticsCountEntries ==
    [][ \A c \in DOMAIN chats :
          StatisticsRead(c) =>
            LET s == resp'.data.stats
                live == threadsOfChat(c, 0)
            IN  /\ s.totalMessages = EntryCount(live, MESSAGE_ROLES)
                /\ s.user = EntryCount(live, {"user"})
                /\ s.assistant = EntryCount(live, {"assistant"})
                /\ s.system = EntryCount(live, {"system"})
                /\ s.totalTokens = 0
      ]_vars

----------------------------------------------------------------------------
(* sendMessage with an AI reply *)

\* the Gemini call of a request had no API key or threw
Fallbacks == {"nokey", "throws"}

\* sendMessage was served in this step for chat c of its caller, with a
\* message that passes validation, while Gemini was unavailable
SentWithFallback(c) ==
    /\ resp'.op = "sendMessage"
    /\ resp'.pre \in Fallbacks
    /\ resp'.req.chatId = c
    /\ \E u \in DOMAIN users, o \in Fallbacks :
          /\ getFlatChatById(c, u) = 200
          /\ SendMessageAI(c, u, <<"h">>, o)

\* the stored messages of chat c end with the assistant's mock reply
EndsWithMockReply(c) ==
    LET ms == flat'[c].messages
    IN  /\ ms # <<>>
        /\ ms[Len(ms)].role = "assistant"
        /\ ms[Len(ms)].content \in MockResponses
        /\ ms[Len(ms)].tokenCount \in MockTokenCounts

\* the stored messages of chat c have the user message right before the
\* last one
UserMessageBeforeReply(c) ==
    LET ms == flat'[c].messages
    IN  /\ Len(ms) >= 2
        /\ ms[Len(ms) - 1].role = "user"
        /\ ms[Len(ms) - 1].content = <<"h">>
        /\ ms[Len(ms) - 1].timestamp = now

\* C23: with no Gemini API key, or with the Gemini call throwing,
\* sendMessage succeeds, and the saved chat ends with the user message
\* followed by a mock assistant reply.
C23_ReplyBothSaved ==
    [][ \A c \in DOMAIN flat :
          SentWithFallback(c) =>
            /\ resp'.status = 200
            /\ EndsWithMockReply(c)
            /\ UserMessageBeforeReply(c) ]_vars

\* the reply's addMessage removes the user message of the same call: the
\* limit is 1 and the chat held at most one message that is not a system
\* message
ReplyEvictsUserMessage(c) ==
    /\ flat[c].settings.maxMessages = 1
    /\ Len(nonSystemMessages(flat[c].messages)) <= 1

\* C23 (amended): with no Gemini API key, or with the Gemini call throwing,
\* sendMessage succeeds, returns the user message and a mock assistant
\* reply, and the saved chat ends with that reply.  The user message is
\* stored right before the reply, except on a chat with
\* settings.maxMessages = 1 that held at most one non-system message: there
\* the reply's addMessage removes the user message just added, and the
\* reply is the only non-system message saved.
C23_ReplySaved ==
    [][ \A c \in DOMAIN flat :
          SentWithFallback(c) =>
            /\ resp'.status = 200
            /\ Len(resp'.data.entries) = 2
            /\ resp'.data.entries[1].role = "user"
            /\ resp'.data.entries[1].content = <<"h">>
            /\ resp'.data.entries[2] = flat'[c].messages[Len(flat'[c].messages)]
            /\ EndsWithMockReply(c)
            /\ UserMessageBeforeReply(c) <=> ~ReplyEvictsUserMessage(c)
            /\ ReplyEvictsUserMessage(c) =>
                  nonSystemMessages(flat'[c].messages)
                    = <<resp'.data.entries[2]>> ]_vars

\* a message was sent while the Gemini call threw, and the chat ends with
\* the user message and the mock reply
C23_Witness ==
    /\ resp.op = "sendMessage"
    /\ resp.pre = "throws"
    /\ resp.status = 200
    /\ resp.req.chatId \in DOMAIN flat
    /\ LET ms == flat[resp.req.chatId].messages
       IN  /\ Len(ms) >= 2
           /\ ms[Len(ms) - 1].role = "user"
           /\ ms[Len(ms)].role = "assistant"
           /\ ms[Len(ms)].content \in MockResponses
           /\ ms[Len(ms)] = resp.data.entries[2]

----------------------------------------------------------------------------
(* The message limit of the flat revision *)

IsSystem(msg) == msg.role = "system"

IsPrefix(s, t) == Len(s) <= Len(t) /\ SubSeq(t, 1, Len(s)) = s

\* a message was added by hand to chat c in this step
AddedByHand(c) ==
    /\ resp'.op = "addMessage"
    /\ resp'.status = 201
    /\ resp'.req.chatId = c
    /\ flat'[c].messages # flat[c].messages

\* C24: with settings.maxMessages never changed, a chat never holds more
\* than maxMessages messages that are not system messages; an addMessage on
\* a chat that holds maxMessages of them removes exactly one message, the
\* oldest that is not a system message, and then appends; below the limit
\* it only appends; no step removes a system message.
C24_LimitKeepsSystemMessages ==
    [][ \A c \in DOMAIN flat :
          LET ms == flat[c].messages
              after == flat'[c].messages
              M == flat[c].settings.maxMessages
              new == after[Len(after)]
          IN  /\ flat'[c].settings.maxMessages = M
              /\ Len(SelectSeq(after, LAMBDA x : ~IsSystem(x))) <= M
              /\ IsPrefix(SelectSeq(ms, IsSystem), SelectSeq(after, IsSystem))
              /\ AddedByHand(c) =>
                    IF Len(SelectSeq(ms, LAMBDA x : ~IsSystem(x))) = M
                    THEN \E i \in DOMAIN ms :
                            /\ ~IsSystem(ms[i])
                            /\ \A j \in 1..(i - 1) : IsSystem(ms[j])
                            /\ after = Append(SubSeq(ms, 1, i - 1)
                                                \o SubSeq(ms, i + 1, Len(ms)),
                                              new)
                    ELSE after = Append(ms, new) ]_vars

\* a message was added to a chat that was at its limit and holds a system
\* message older than the messages it keeps
C24_Witness ==
    /\ resp.op = "addMessage"
    /\ resp.status = 201
    /\ resp.pre = "full"
    /\ resp.req.chatId \in DOMAIN flat
    /\ LET chat == flat[resp.req.chatId]
       IN  /\ Len(chat.messages) > chat.settings.maxMessages
           /\ IsSystem(chat.messages[1])
           /\ Len(nonSystemMessages(chat.messages)) = chat.settings.maxMessages
           /\ ~IsSystem(chat.messages[Len(chat.messages)])

----------------------------------------------------------------------------
(* The lock and the counter of failed logins *)

\* C25: in every reachable state of a user record lockUntil is set if and
\* only if loginAttempts >= MAX_LOGIN_ATTEMPTS, also when failed logins of
\* the same account interleave between reading the record and updating it.
C25_LockIffMaxAttempts ==
    \A id \in DOMAIN users :
        (users[id].lockUntil # NoDate)
          <=> (users[id].loginAttempts >= MAX_LOGIN_ATTEMPTS)

----------------------------------------------------------------------------
(* What the auth endpoints put in a response body *)

\* the controllers' body: the user object and the access token of the
\* result; the refresh token of the result goes into the cookie
bodyOf(r) == [user |-> r.user, accessToken |-> r.accessToken]

refreshTokensIn(body) ==
    Range(body.user.refreshTokens)
      \cup (IF body.accessToken.kind = "refresh"
            THEN {body.accessToken} ELSE {})

AuthBodies == {"register", "login", "refresh", "me", "getProfile",
               "googleAuth"}

\* C26: no response body of register, login, refresh-token, me, profile or
\* the Google sign-in contains a refresh-token value, and the user object
\* in it does not carry the refreshTokens list.
C26_NoRefreshTokenInBody ==
    resp.op \in AuthBodies =>
        /\ refreshTokensIn(bodyOf(resp)) = {}
        /\ "refreshTokens" \notin bodyOf(resp).user.paths

----------------------------------------------------------------------------
(* Deactivated prompts *)

Inactive(c, q) ==
    /\ c \in DOMAIN chats
    /\ q \in DOMAIN chats[c].prompts
    /\ ~chats[c].prompts[q].isActive

\* C27: a prompt whose isActive is false keeps isActive false over every
\* step of addPrompt, updatePrompt, deletePrompt, updateChat and
\* sendMessage, and getPromptById and updatePrompt on it answer NotFound
\* and write nothing.
C27_InactiveStaysInactive ==
    [][ \A c \in DOMAIN chats, q \in 1..MaxPrompts :
          Inactive(c, q) =>
            /\ c \in DOMAIN chats'
            /\ q \in DOMAIN chats'[c].prompts
            /\ ~chats'[c].prompts[q].isActive
            /\ \A u \in DOMAIN users :
                  /\ GetPromptById(c, q, u) => resp'.status = 404
                  /\ \A d \in PromptUpdates :
                        UpdatePrompt(c, q, u, d) =>
                            resp'.status = 404 /\ chats' = chats ]_vars

\* every prompt of a full list is inactive and an updatePrompt that asked
\* to activate one was answered "Prompt not found"
C27_Witness ==
    /\ resp.op = "updatePrompt"
    /\ resp.status = 404
    /\ resp.message = MsgPromptNotFound
    /\ \E c \in DOMAIN chats :
          /\ chats[c].exists
          /\ Len(chats[c].prompts) = MaxPrompts
          /\ \A q \in DOMAIN chats[c].prompts : Inactive(c, q)

----------------------------------------------------------------------------
(* Threads and the prompts of their chat *)

----------------------------------------------------------------------------
(* Tokens of a deleted account *)

\* the refresh tokens issued to a user and the access tokens signed with
\* them
TokensOf(uid) ==
    { t \in issued \cup {accessTwin(r) : r \in issued} : t.userId = uid }

\* the user of the token was deleted and the middleware refuses the token
Rejected(t) ==
    /\ t.userId < nextUserId
    /\ t.userId \notin DOMAIN users
    /\ authenticate(t).status = 401

\* C29: once deleteProfile(userId) has succeeded, every access token and
\* refresh token issued to that user before is refused from then on: the
\* authenticate middleware answers 401 and the route handler is not run,
\* and refreshAccessToken answers 401.
C29_DeletedUserRejected ==
    [][ \A uid \in UserIds : \A t \in TokensOf(uid) :
          /\ (DeleteProfile(uid, "none") /\ resp'.status = 200)
                => Rejected(t)'
          /\ Rejected(t) =>
                /\ Rejected(t)'
                /\ (Me(t) \/ GetProfile(t)) =>
                      /\ resp'.status = 401
                      /\ resp'.user = NoUser
                /\ RefreshAccessToken(t) => resp'.status = 401 ]_vars

\* a request with a token of a deleted account was answered 401 "User not
\* found"
C29_Witness ==
    /\ resp.op = "me"
    /\ resp.status = 401
    /\ resp.message = "User not found"
    /\ \E t \in issued : t.userId \notin DOMAIN users

----------------------------------------------------------------------------
(* Interleaved sendMessage calls and the default prompt *)

\* the "General conversation" prompts of a chat
defaultPrompts(chat) ==
    { i \in DOMAIN chat.prompts : chat.prompts[i] = DefaultPrompt }

\* the call has returned; it had read the chat with no active prompt
ReturnedWithoutPrompt(k) ==
    /\ pendingSend[k].pc = "done"
    /\ activePrompts(pendingSend[k].chat) = {}

\* C30: when two sendMessage calls without promptId on the same chat, both
\* started while the chat had no active prompt, have returned in whatever
\* interleaving, the chat holds exactly one default "General conversation"
\* prompt and both messages are addressed to it.
C30_OneDefaultPromptForBoth ==
    \A k1 \in DOMAIN pendingSend, k2 \in DOMAIN pendingSend :
        (/\ k1 # k2
         /\ ReturnedWithoutPrompt(k1)
         /\ ReturnedWithoutPrompt(k2)
         /\ pendingSend[k1].chatId = pendingSend[k2].chatId)
        => /\ Cardinality(defaultPrompts(chats[pendingSend[k1].chatId])) = 1
           /\ pendingSend[k1].promptId = pendingSend[k2].promptId

====
